---- MODULE Spec2Model ----
(***************************************************************************)
(* Model of the GitHub CDN: the LRU file cache (lib/cache), the GitHub     *)
(* client with retry and backoff (lib/github-client) and the cached fetch  *)
(* of the request handler (api/cdn).                                       *)
(*                                                                         *)
(* JavaScript runs every synchronous stretch of code to completion, so an  *)
(* action of the model is the code between two awaits.                     *)
(***************************************************************************)
EXTENDS Integers, Sequences, FiniteSets, TLC

(***************************************************************************)
(* Bounds of the model.                                                    *)
(***************************************************************************)
\* milliseconds per second, the factor of ttlSeconds in LRUCache.set
MsPerSecond == 1000

\* new LRUCache(maxSizeBytes, maxEntries, ttlSeconds): the values the cache
\* is constructed with, scaled down
MaxSizeBytes == 3
MaxEntries == 2
TtlSeconds == 1
\* Date.now() starts at 0, advances in steps of TickMs and stops at MaxTime
TickMs == MsPerSecond \div 2
MaxTime == 1000

\* the requests in the handler at the same time
Reqs == {1, 2}

Keys == {"a", "b", "c"}
Bytes == {7}

\* a Buffer: a sequence of bytes
Payload(n, b) == [i \in 1..n |-> b]
\* the lengths of the payloads: empty, small, just below the budget of the
\* cache, the whole budget, and too large to cache
PayloadLens == {0, 1, MaxSizeBytes - 1, MaxSizeBytes, MaxSizeBytes + 1}
Payloads == {Payload(n, b) : n \in PayloadLens, b \in Bytes}

\* Buffer.byteLength(data)
byteLength(data) == Len(data)

\* null, the absent result of get: a value that no Buffer equals; the absent key
Null == <<-1>>
NoKey == "-"

VARIABLES
  cache,             \* LRUCache.cache: the Map, as the sequence of its entries in insertion order
  currentSizeBytes,  \* LRUCache.currentSizeBytes
  ttlSeconds,        \* LRUCache.ttlSeconds: config.serverCacheSeconds
  spinning,          \* TRUE when the eviction loop of set can no longer end
  now,               \* Date.now()
  lastTouch,         \* key -> the rank of its last touch (insertion by set, hit of get)
                     \* among the last touches of the stored keys, 0 if not stored
  insertedAt,        \* key -> Date.now() at the set that stored its entry
  lastOp,            \* the last cache operation: its name, key, result and evictions
  client,            \* the GitHubClient: maxRetries, retryDelay, timeout
  fetch,             \* a call of GitHubClient.fetchFile: its position and locals
  fetchLog,          \* what the origin answered to each attempt of that call
  reqs,              \* the requests in the handler: request -> its position in
                     \* fetchFileWithCache, its path, its call of fetchFile, its outcome
  requests,          \* RateLimiter.requests: the Map clientId -> timestamps
  admitted,          \* client -> the instants of its admitted calls of checkLimit, in order
  rejectedAt,        \* client -> the instant of its last rejected call, -1 if none
  lastCheck,         \* the last operation of the limiter: its name, client and result
  compress,          \* a request from the return of fetchFileWithCache on: its
                     \* path and file, its call of compressContent, the response
  validation,        \* a call of validateFilePath: its argument and its outcome
  timer,             \* the timeout that fetchFile sets for an attempt: pending or not, and Date.now() at setTimeout
  unswept,           \* the Map of a second RateLimiter that gets the same calls of checkLimit and is never swept
  page,              \* the analytics script in a page: the two storages, its variables sid, lastActivity and url, location.href, the pending timeouts, and what its last step did
  http               \* request -> what the handler holds of it besides reqs: the
                     \* client, the headers, the call of compressContent, the response

cacheVars == <<cache, currentSizeBytes, ttlSeconds, spinning, now, lastTouch, insertedAt, lastOp>>
fetchVars == <<client, fetch, fetchLog>>
limiterVars == <<requests, admitted, rejectedAt, lastCheck>>
vars == <<cacheVars, fetchVars, reqs, limiterVars, compress, http, validation, timer, unswept, page>>

\* the LRUCache object: the Map and the tracked size
CacheObj == [cache |-> cache, currentSizeBytes |-> currentSizeBytes]

maxSizeBytes == MaxSizeBytes
maxEntries == MaxEntries

\* Map.has(key)
Has(c, key) == \E i \in 1..Len(c) : c[i].key = key
\* Map.get(key), for a key the Map has
Entry(c, key) == c[CHOOSE i \in 1..Len(c) : c[i].key = key]
\* Map.delete(key)
MapDelete(c, key) == SelectSeq(c, LAMBDA e : e.key # key)
\* the keys of the Map
KeysOf(c) == {c[i].key : i \in 1..Len(c)}

RECURSIVE SumSizes(_)
SumSizes(c) == IF c = <<>> THEN 0 ELSE Head(c).size + SumSizes(Tail(c))

(***************************************************************************)
(* LRUCache.delete                                                         *)
(***************************************************************************)
\* faulty variant: the entry is removed and its size is not subtracted
LRUCache_delete_NoAccounting(o, key) ==
  IF Has(o.cache, key)
  THEN [cache |-> MapDelete(o.cache, key),
        currentSizeBytes |-> o.currentSizeBytes,
        ret |-> TRUE]
  ELSE [cache |-> o.cache, currentSizeBytes |-> o.currentSizeBytes, ret |-> FALSE]

LRUCache_delete(o, key) ==
  IF Has(o.cache, key)
  THEN [cache |-> MapDelete(o.cache, key),
        currentSizeBytes |-> o.currentSizeBytes - Entry(o.cache, key).size,
        ret |-> TRUE]
  ELSE [cache |-> o.cache, currentSizeBytes |-> o.currentSizeBytes, ret |-> FALSE]

(***************************************************************************)
(* LRUCache.evictLRU: the first entry of the Map is deleted.               *)
(***************************************************************************)
\* faulty variant: the first entry is taken out of the Map and its size
\* stays in the tracked total
LRUCache_evictLRU_NoAccounting(o) ==
  IF Len(o.cache) = 0
  THEN [cache |-> o.cache, currentSizeBytes |-> o.currentSizeBytes]
  ELSE [cache |-> MapDelete(o.cache, Head(o.cache).key),
        currentSizeBytes |-> o.currentSizeBytes]

LRUCache_evictLRU(o) ==
  IF Len(o.cache) = 0
  THEN [cache |-> o.cache, currentSizeBytes |-> o.currentSizeBytes]
  ELSE LET d == LRUCache_delete(o, Head(o.cache).key)
       IN [cache |-> d.cache, currentSizeBytes |-> d.currentSizeBytes]

\* faulty variant: the loop looks at the count only
NeedsEvictionNoSize(o, size) == Len(o.cache) >= maxEntries

\* faulty variant: the loop looks at the bytes only
NeedsEvictionNoCount(o, size) == o.currentSizeBytes + size > maxSizeBytes

\* faulty variant: the loop evicts until a byte is left over
NeedsEviction_Eager(o, size) ==
  \/ o.currentSizeBytes + size >= maxSizeBytes
  \/ Len(o.cache) >= maxEntries

\* the condition of the while loop of set
NeedsEviction(o, size) ==
  \/ o.currentSizeBytes + size > maxSizeBytes
  \/ Len(o.cache) >= maxEntries

\* the while loop of set: the state it ends in, the entries it evicted in
\* order, and spin = TRUE when the condition holds on an empty Map (evictLRU
\* then changes nothing and the loop never ends)
RECURSIVE EvictLoop(_, _, _)
EvictLoop(o, size, evicted) ==
  IF NeedsEviction(o, size)
  THEN IF Len(o.cache) = 0
       THEN [cache |-> o.cache, currentSizeBytes |-> o.currentSizeBytes,
             evicted |-> evicted, spin |-> TRUE]
       ELSE EvictLoop(LRUCache_evictLRU(o), size, Append(evicted, Head(o.cache)))
  ELSE [cache |-> o.cache, currentSizeBytes |-> o.currentSizeBytes,
        evicted |-> evicted, spin |-> FALSE]

(***************************************************************************)
(* LRUCache.set                                                            *)
(***************************************************************************)
\* faulty variant: the size test comes after the removal of the existing entry
LRUCache_set_CheckAfterDelete(o, key, data, t) ==
  LET size == byteLength(data)
      d == IF Has(o.cache, key) THEN LRUCache_delete(o, key) ELSE o
      l == EvictLoop([cache |-> d.cache, currentSizeBytes |-> d.currentSizeBytes], size, <<>>)
      entry == [key |-> key, data |-> data, expiresAt |-> t + ttlSeconds * MsPerSecond,
                size |-> size, accessedAt |-> t]
  IN IF size > maxSizeBytes
     THEN [cache |-> d.cache, currentSizeBytes |-> d.currentSizeBytes,
           evicted |-> <<>>, spin |-> FALSE, ret |-> FALSE]
     ELSE IF l.spin
     THEN [cache |-> l.cache, currentSizeBytes |-> l.currentSizeBytes,
           evicted |-> l.evicted, spin |-> TRUE, ret |-> FALSE]
     ELSE [cache |-> Append(l.cache, entry),
           currentSizeBytes |-> l.currentSizeBytes + size,
           evicted |-> l.evicted, spin |-> FALSE, ret |-> TRUE]

\* faulty variant: set reports success and inserts nothing
LRUCache_set_NotInserted(o, key, data, t) ==
  LET size == byteLength(data)
      d == IF Has(o.cache, key) THEN LRUCache_delete(o, key) ELSE o
      l == EvictLoop([cache |-> d.cache, currentSizeBytes |-> d.currentSizeBytes], size, <<>>)
  IN IF size > maxSizeBytes
     THEN [cache |-> o.cache, currentSizeBytes |-> o.currentSizeBytes,
           evicted |-> <<>>, spin |-> FALSE, ret |-> FALSE]
     ELSE [cache |-> l.cache, currentSizeBytes |-> l.currentSizeBytes,
           evicted |-> l.evicted, spin |-> l.spin, ret |-> ~l.spin]

\* faulty variant: a key the Map already has is overwritten in place, its
\* old entry is not deleted first and its old size stays in the tracked total
LRUCache_set_NoDeleteExisting(o, key, data, t) ==
  LET size == byteLength(data)
      l == EvictLoop(o, size, <<>>)
      entry == [key |-> key, data |-> data, expiresAt |-> t + ttlSeconds * MsPerSecond,
                size |-> size, accessedAt |-> t]
  IN IF size > maxSizeBytes
     THEN [cache |-> o.cache, currentSizeBytes |-> o.currentSizeBytes,
           evicted |-> <<>>, spin |-> FALSE, ret |-> FALSE]
     ELSE IF Has(o.cache, key)
     THEN [cache |-> [i \in 1..Len(o.cache) |->
                        IF o.cache[i].key = key THEN entry ELSE o.cache[i]],
           currentSizeBytes |-> o.currentSizeBytes + size,
           evicted |-> <<>>, spin |-> FALSE, ret |-> TRUE]
     ELSE IF l.spin
     THEN [cache |-> l.cache, currentSizeBytes |-> l.currentSizeBytes,
           evicted |-> l.evicted, spin |-> TRUE, ret |-> FALSE]
     ELSE [cache |-> Append(l.cache, entry),
           currentSizeBytes |-> l.currentSizeBytes + size,
           evicted |-> l.evicted, spin |-> FALSE, ret |-> TRUE]

\* faulty variant: the eviction loop runs before the old entry of the key is
\* deleted, so that the old entry counts against the new one
LRUCache_set_EvictBeforeDelete(o, key, data, t) ==
  LET size == byteLength(data)
      l == EvictLoop(o, size, <<>>)
      d == IF Has(l.cache, key)
           THEN LRUCache_delete([cache |-> l.cache, currentSizeBytes |-> l.currentSizeBytes], key)
           ELSE [cache |-> l.cache, currentSizeBytes |-> l.currentSizeBytes]
      entry == [key |-> key, data |-> data, expiresAt |-> t + ttlSeconds * MsPerSecond,
                size |-> size, accessedAt |-> t]
  IN IF size > maxSizeBytes
     THEN [cache |-> o.cache, currentSizeBytes |-> o.currentSizeBytes,
           evicted |-> <<>>, spin |-> FALSE, ret |-> FALSE]
     ELSE IF l.spin
     THEN [cache |-> l.cache, currentSizeBytes |-> l.currentSizeBytes,
           evicted |-> l.evicted, spin |-> TRUE, ret |-> FALSE]
     ELSE [cache |-> Append(d.cache, entry),
           currentSizeBytes |-> d.currentSizeBytes + size,
           evicted |-> l.evicted, spin |-> FALSE, ret |-> TRUE]

\* faulty variant: the size of the item is not tested first, and the loop
\* evicts for an item that can never fit
LRUCache_set_NoSizeCheck(o, key, data, t) ==
  LET size == byteLength(data)
      d == IF Has(o.cache, key) THEN LRUCache_delete(o, key) ELSE o
      l == EvictLoop([cache |-> d.cache, currentSizeBytes |-> d.currentSizeBytes], size, <<>>)
      entry == [key |-> key, data |-> data, expiresAt |-> t + ttlSeconds * MsPerSecond,
                size |-> size, accessedAt |-> t]
  IN IF l.spin
     THEN [cache |-> l.cache, currentSizeBytes |-> l.currentSizeBytes,
           evicted |-> l.evicted, spin |-> TRUE, ret |-> FALSE]
     ELSE [cache |-> Append(l.cache, entry),
           currentSizeBytes |-> l.currentSizeBytes + size,
           evicted |-> l.evicted, spin |-> FALSE, ret |-> TRUE]

LRUCache_set(o, key, data, t) ==
  LET size == byteLength(data)
      d == IF Has(o.cache, key) THEN LRUCache_delete(o, key) ELSE o
      l == EvictLoop([cache |-> d.cache, currentSizeBytes |-> d.currentSizeBytes], size, <<>>)
      entry == [key |-> key, data |-> data, expiresAt |-> t + ttlSeconds * MsPerSecond,
                size |-> size, accessedAt |-> t]
  IN IF size > maxSizeBytes
     THEN [cache |-> o.cache, currentSizeBytes |-> o.currentSizeBytes,
           evicted |-> <<>>, spin |-> FALSE, ret |-> FALSE]
     ELSE IF l.spin
     THEN [cache |-> l.cache, currentSizeBytes |-> l.currentSizeBytes,
           evicted |-> l.evicted, spin |-> TRUE, ret |-> FALSE]
     ELSE [cache |-> Append(l.cache, entry),
           currentSizeBytes |-> l.currentSizeBytes + size,
           evicted |-> l.evicted, spin |-> FALSE, ret |-> TRUE]

(***************************************************************************)
(* LRUCache.get                                                            *)
(***************************************************************************)
\* faulty variant: a hit updates accessedAt and leaves the entry in its place
LRUCache_get_NoPromote(o, key, t) ==
  IF ~Has(o.cache, key)
  THEN [cache |-> o.cache, currentSizeBytes |-> o.currentSizeBytes, ret |-> Null, hit |-> FALSE,
        expired |-> FALSE]
  ELSE LET entry == Entry(o.cache, key)
       IN IF t >= entry.expiresAt
          THEN LET d == LRUCache_delete(o, key)
               IN [cache |-> d.cache, currentSizeBytes |-> d.currentSizeBytes,
                   ret |-> Null, hit |-> FALSE, expired |-> TRUE]
          ELSE [cache |-> [i \in 1..Len(o.cache) |->
                             IF o.cache[i].key = key
                             THEN [entry EXCEPT !.accessedAt = t] ELSE o.cache[i]],
                currentSizeBytes |-> o.currentSizeBytes,
                ret |-> entry.data, hit |-> TRUE, expired |-> FALSE]

\* faulty variant: the entry is still served at expiresAt itself
LRUCache_get_LateExpiry(o, key, t) ==
  IF ~Has(o.cache, key)
  THEN [cache |-> o.cache, currentSizeBytes |-> o.currentSizeBytes, ret |-> Null, hit |-> FALSE,
        expired |-> FALSE]
  ELSE LET entry == Entry(o.cache, key)
       IN IF t > entry.expiresAt
          THEN LET d == LRUCache_delete(o, key)
               IN [cache |-> d.cache, currentSizeBytes |-> d.currentSizeBytes,
                   ret |-> Null, hit |-> FALSE, expired |-> TRUE]
          ELSE [cache |-> Append(MapDelete(o.cache, key), [entry EXCEPT !.accessedAt = t]),
                currentSizeBytes |-> o.currentSizeBytes,
                ret |-> entry.data, hit |-> TRUE, expired |-> FALSE]

\* faulty variant: a hit renews the lifetime of the entry
LRUCache_get_Sliding(o, key, t) ==
  IF ~Has(o.cache, key)
  THEN [cache |-> o.cache, currentSizeBytes |-> o.currentSizeBytes, ret |-> Null, hit |-> FALSE,
        expired |-> FALSE]
  ELSE LET entry == Entry(o.cache, key)
       IN IF t >= entry.expiresAt
          THEN LET d == LRUCache_delete(o, key)
               IN [cache |-> d.cache, currentSizeBytes |-> d.currentSizeBytes,
                   ret |-> Null, hit |-> FALSE, expired |-> TRUE]
          ELSE [cache |-> Append(MapDelete(o.cache, key),
                                 [entry EXCEPT !.accessedAt = t,
                                               !.expiresAt = t + ttlSeconds * MsPerSecond]),
                currentSizeBytes |-> o.currentSizeBytes,
                ret |-> entry.data, hit |-> TRUE, expired |-> FALSE]

LRUCache_get(o, key, t) ==
  IF ~Has(o.cache, key)
  THEN [cache |-> o.cache, currentSizeBytes |-> o.currentSizeBytes, ret |-> Null, hit |-> FALSE,
        expired |-> FALSE]
  ELSE LET entry == Entry(o.cache, key)
       IN IF t >= entry.expiresAt
          THEN LET d == LRUCache_delete(o, key)
               IN [cache |-> d.cache, currentSizeBytes |-> d.currentSizeBytes,
                   ret |-> Null, hit |-> FALSE, expired |-> TRUE]
          ELSE [cache |-> Append(MapDelete(o.cache, key), [entry EXCEPT !.accessedAt = t]),
                currentSizeBytes |-> o.currentSizeBytes,
                ret |-> entry.data, hit |-> TRUE, expired |-> FALSE]

(***************************************************************************)
(* LRUCache.clearExpired and LRUCache.clear                                *)
(***************************************************************************)
RECURSIVE ClearExpiredFrom_LateExpiry(_, _, _, _)
\* faulty variant: an entry whose expiresAt is the present instant is kept
ClearExpiredFrom_LateExpiry(o, rest, t, cleared) ==
  IF rest = <<>>
  THEN [cache |-> o.cache, currentSizeBytes |-> o.currentSizeBytes, ret |-> cleared]
  ELSE IF t > Head(rest).expiresAt
       THEN LET d == LRUCache_delete(o, Head(rest).key)
            IN ClearExpiredFrom_LateExpiry(
                 [cache |-> d.cache, currentSizeBytes |-> d.currentSizeBytes],
                 Tail(rest), t, cleared + 1)
       ELSE ClearExpiredFrom_LateExpiry(o, Tail(rest), t, cleared)

RECURSIVE ClearExpiredFrom(_, _, _, _)
\* the for loop of clearExpired over the entries `rest` still to visit
ClearExpiredFrom(o, rest, t, cleared) ==
  IF rest = <<>>
  THEN [cache |-> o.cache, currentSizeBytes |-> o.currentSizeBytes, ret |-> cleared]
  ELSE IF t >= Head(rest).expiresAt
       THEN LET d == LRUCache_delete(o, Head(rest).key)
            IN ClearExpiredFrom([cache |-> d.cache, currentSizeBytes |-> d.currentSizeBytes],
                                Tail(rest), t, cleared + 1)
       ELSE ClearExpiredFrom(o, Tail(rest), t, cleared)

LRUCache_clearExpired(o, t) == ClearExpiredFrom(o, o.cache, t, 0)

LRUCache_clear(o) == [cache |-> <<>>, currentSizeBytes |-> 0]

(***************************************************************************)
(* GitHubClient                                                            *)
(***************************************************************************)
\* an option that is not supplied
Undefined == -1

DefaultMaxRetries == 3
DefaultRetryDelay == 1000
DefaultTimeout == 30000

\* option || dflt: the default replaces every falsy value, undefined and 0
OrDefault(option, dflt) == IF option = Undefined \/ option = 0 THEN dflt ELSE option

\* the constructor; the options it was called with are kept with the client
GitHubClient(options) ==
  [maxRetries |-> OrDefault(options.maxRetries, DefaultMaxRetries),
   retryDelay |-> OrDefault(options.retryDelay, DefaultRetryDelay),
   timeout |-> OrDefault(options.timeout, DefaultTimeout),
   options |-> options]

\* the client of the handler is constructed without these options
githubClient ==
  GitHubClient([maxRetries |-> Undefined, retryDelay |-> Undefined, timeout |-> Undefined])

RECURSIVE Pow2(_)
\* Math.pow(2, n)
Pow2(n) == IF n = 0 THEN 1 ELSE 2 * Pow2(n - 1)

\* faulty variant: the delay grows linearly
calculateBackoff_Linear(c, attempt) == c.retryDelay * (attempt + 1)

calculateBackoff(c, attempt) == c.retryDelay * Pow2(attempt)

isRetryableError(statusCode) == statusCode >= 500 \/ statusCode = 429

\* response.ok
IsOk(status) == status >= 200 /\ status <= 299

\* the errors: their class and their statusCode (0 when the error has none);
\* NoError is the null of lastError
NoError == [name |-> "null", statusCode |-> 0]
FileNotFoundError == [name |-> "FileNotFoundError", statusCode |-> 404]
GitHubAPIError(statusCode) == [name |-> "GitHubAPIError", statusCode |-> statusCode]
\* the rejection of fetch when the AbortController fires
AbortError == [name |-> "AbortError", statusCode |-> 0]
\* the rejection of fetch, response.buffer() or response.text() on a transport error
FetchError == [name |-> "FetchError", statusCode |-> 0]

\* lastError || error
OrElse(lastError, error) == IF lastError # NoError THEN lastError ELSE error

\* a call of fetchFile that has not started
FetchIdle ==
  [pc |-> "idle", attempt |-> 0, lastError |-> NoError, status |-> 0,
   attempts |-> 0, sleeps |-> <<>>, buffer |-> Null, error |-> NoError]

\* the top of the loop body: the request is issued and fetchFile awaits fetch
FetchIssue(f) == [f EXCEPT !.pc = "fetch", !.status = 0, !.attempts = @ + 1]

\* fetchFile rejects with error e
Throw(f, e) == [f EXCEPT !.pc = "thrown", !.error = e]

\* faulty variant: the sleep and the next attempt follow the last attempt
\* too
AfterTry_OneMore(c, f) ==
  IF f.attempt <= c.maxRetries
  THEN [f EXCEPT !.pc = "sleep", !.sleeps = Append(@, calculateBackoff(c, f.attempt))]
  ELSE Throw(f, OrElse(f.lastError, GitHubAPIError(502)))

\* after the try statement: the backoff sleep if attempts remain, else the
\* loop ends and the throw after it is reached
AfterTry(c, f) ==
  IF f.attempt < c.maxRetries
  THEN [f EXCEPT !.pc = "sleep", !.sleeps = Append(@, calculateBackoff(c, f.attempt))]
  ELSE Throw(f, OrElse(f.lastError, GitHubAPIError(502)))

\* faulty variant: FileNotFoundError is not exempted from the retry
Catch_RetryNotFound(c, f, error) ==
  IF f.attempt = c.maxRetries
  THEN IF error.name = "AbortError"
       THEN Throw(f, GitHubAPIError(504))
       ELSE Throw(f, OrElse(f.lastError, error))
  ELSE AfterTry(c, [f EXCEPT !.lastError = error])

\* faulty variant: the deadline of the last attempt is not mapped to 504
Catch_TimeoutUnmapped(c, f, error) ==
  IF error.name = "FileNotFoundError"
  THEN Throw(f, error)
  ELSE IF f.attempt = c.maxRetries
       THEN Throw(f, OrElse(f.lastError, error))
       ELSE AfterTry(c, [f EXCEPT !.lastError = error])

\* the catch block
Catch(c, f, error) ==
  IF error.name = "FileNotFoundError"
  THEN Throw(f, error)
  ELSE IF f.attempt = c.maxRetries
       THEN IF error.name = "AbortError"
            THEN Throw(f, GitHubAPIError(504))
            ELSE Throw(f, OrElse(f.lastError, error))
       ELSE AfterTry(c, [f EXCEPT !.lastError = error])

\* await fetch(url) resolves with a response of this status
OnResponse(c, f, status) ==
  IF IsOk(status)
  THEN [f EXCEPT !.pc = "buffer", !.status = status]
  ELSE IF status = 404
       THEN Catch(c, f, FileNotFoundError)
       ELSE [f EXCEPT !.pc = "text", !.status = status]

\* await response.buffer() resolves
OnBuffer(f, data) == [f EXCEPT !.pc = "returned", !.buffer = data]

\* await response.text() resolves
OnText(c, f) ==
  LET g == [f EXCEPT !.lastError =
                       GitHubAPIError(IF f.status = 404 THEN 404 ELSE 502)]
  IN IF ~isRetryableError(f.status)
     THEN Catch(c, g, g.lastError)
     ELSE AfterTry(c, g)

\* await sleep(delay) resolves: attempt++ and the next request
OnSleepDone(f) == FetchIssue([f EXCEPT !.attempt = @ + 1])

\* no timeout is pending
NoTimer == [pending |-> FALSE, setAt |-> 0]
\* setTimeout(() => controller.abort(), this.timeout) at time t
SetTimeout(t) == [pending |-> TRUE, setAt |-> t]
\* clearTimeout(timeoutId)
ClearTimeout(tm) == [tm EXCEPT !.pending = FALSE]

\* a request slot with no request in it
ReqIdle == [pc |-> "idle", path |-> NoKey, f |-> FetchIdle, result |-> Null, error |-> NoError]

(***************************************************************************)
(* RateLimiter                                                             *)
(***************************************************************************)
\* new RateLimiter(maxRequests, windowMs): the values the limiter is
\* constructed with, scaled down
LimiterMaxRequests == 3
WindowMs == 1000

maxRequests == LimiterMaxRequests
windowMs == WindowMs

\* the client identifiers
Clients == {"x", "y"}

\* the empty Map of the limiter
NoRequests == [c \in {} |-> <<>>]

\* this.requests.get(clientId) || []
ClientRequests(m, clientId) == IF clientId \in DOMAIN m THEN m[clientId] ELSE <<>>

\* timestamps.filter(timestamp => now - timestamp < this.windowMs)
ValidRequests(timestamps, t) ==
  SelectSeq(timestamps, LAMBDA timestamp : t - timestamp < windowMs)

\* Map.set(key, value)
MapSet(m, key, value) == [k \in DOMAIN m \cup {key} |-> IF k = key THEN value ELSE m[k]]

\* faulty variant: a timestamp exactly windowMs old still counts
checkLimit_LateExpiry(m, clientId, t) ==
  LET validRequests == SelectSeq(ClientRequests(m, clientId),
                                 LAMBDA timestamp : t - timestamp <= windowMs)
  IN IF Len(validRequests) >= maxRequests
     THEN [requests |-> m, ret |-> FALSE]
     ELSE [requests |-> MapSet(m, clientId, Append(validRequests, t)), ret |-> TRUE]

\* faulty variant: the request is recorded before the test, so that a
\* rejected request is recorded too
checkLimit_RecordsRejected(m, clientId, t) ==
  LET validRequests == ValidRequests(ClientRequests(m, clientId), t)
      recorded == MapSet(m, clientId, Append(validRequests, t))
  IN IF Len(validRequests) >= maxRequests
     THEN [requests |-> recorded, ret |-> FALSE]
     ELSE [requests |-> recorded, ret |-> TRUE]

\* faulty variant: the limit is one request too high
checkLimit_OneTooMany(m, clientId, t) ==
  LET validRequests == ValidRequests(ClientRequests(m, clientId), t)
  IN IF Len(validRequests) > maxRequests
     THEN [requests |-> m, ret |-> FALSE]
     ELSE [requests |-> MapSet(m, clientId, Append(validRequests, t)), ret |-> TRUE]

\* faulty variant: an admitted request is not recorded
checkLimit_NotRecorded(m, clientId, t) ==
  LET validRequests == ValidRequests(ClientRequests(m, clientId), t)
  IN IF Len(validRequests) >= maxRequests
     THEN [requests |-> m, ret |-> FALSE]
     ELSE [requests |-> MapSet(m, clientId, validRequests), ret |-> TRUE]

\* faulty variant: the limit is tested against the young timestamps of all
\* the clients together
checkLimit_Shared(m, clientId, t) ==
  LET validRequests == ValidRequests(ClientRequests(m, clientId), t)
      RECURSIVE Total(_)
      Total(ids) ==
        IF ids = {} THEN 0
        ELSE LET id == CHOOSE id \in ids : TRUE
             IN Len(ValidRequests(m[id], t)) + Total(ids \ {id})
  IN IF Total(DOMAIN m) >= maxRequests
     THEN [requests |-> m, ret |-> FALSE]
     ELSE [requests |-> MapSet(m, clientId, Append(validRequests, t)), ret |-> TRUE]

\* checkLimit: ret = FALSE stands for the throw of RateLimitError
checkLimit(m, clientId, t) ==
  LET validRequests == ValidRequests(ClientRequests(m, clientId), t)
  IN IF Len(validRequests) >= maxRequests
     THEN [requests |-> m, ret |-> FALSE]
     ELSE [requests |-> MapSet(m, clientId, Append(validRequests, t)), ret |-> TRUE]

\* faulty variant: the sweep keeps a timestamp that is exactly windowMs old
Cleanup_LateExpiry(m, t) ==
  LET valid(timestamps) == SelectSeq(timestamps, LAMBDA timestamp : t - timestamp <= windowMs)
      kept == {clientId \in DOMAIN m : Len(valid(m[clientId])) # 0}
  IN [clientId \in kept |-> valid(m[clientId])]

\* faulty variant: the sweep forgets every client
Cleanup_Clears(m, t) == [clientId \in {} |-> <<>>]

\* the callback of the cleanup interval: every list is pruned and the
\* clients whose list becomes empty are deleted
Cleanup(m, t) ==
  LET kept == {clientId \in DOMAIN m : Len(ValidRequests(m[clientId], t)) # 0}
  IN [clientId \in kept |-> ValidRequests(m[clientId], t)]

\* the limiter before its first call
NoCheck == [op |-> "none", clientId |-> NoKey, ok |-> FALSE]

LimiterInit ==
  /\ requests = NoRequests
  /\ admitted = [c \in Clients |-> <<>>]
  /\ rejectedAt = [c \in Clients |-> -1]
  /\ lastCheck = NoCheck

(***************************************************************************)
(* compressContent                                                         *)
(***************************************************************************)
\* a string: the sequence of its characters
LowerCaseLetters == <<"b", "r", "g", "z", "i", "p", "d", "e", "f", "l", "a", "t">>
UpperCaseLetters == <<"B", "R", "G", "Z", "I", "P", "D", "E", "F", "L", "A", "T">>

\* String.prototype.toLowerCase
ToLowerCase(str) ==
  [i \in 1..Len(str) |->
     IF \E j \in 1..Len(UpperCaseLetters) : UpperCaseLetters[j] = str[i]
     THEN LowerCaseLetters[CHOOSE j \in 1..Len(UpperCaseLetters) : UpperCaseLetters[j] = str[i]]
     ELSE str[i]]

\* String.prototype.includes
Includes(str, searchString) ==
  \E i \in 0..(Len(str) - Len(searchString)) :
    SubSeq(str, i + 1, i + Len(searchString)) = searchString

\* the content codings, in the order compressContent tries them, and the
\* strings it searches the header for
Codings == <<"br", "gzip", "deflate">>
CodingName(coding) ==
  CASE coding = "br" -> <<"b", "r">>
    [] coding = "gzip" -> <<"g", "z", "i", "p">>
    [] coding = "deflate" -> <<"d", "e", "f", "l", "a", "t", "e">>

\* the bytes an encoder writes
CompressedBytes == {9}

\* what an encoder does with a buffer: it fails, or it delivers an output
EncoderError == [error |-> TRUE, data |-> Null]
EncoderOutput(data) == [error |-> FALSE, data |-> data]

\* compressBrotli, compressGzip, compressDeflate: the output of the encoder,
\* null when the encoder fails
compressBrotli(outcome) == IF outcome.error THEN Null ELSE outcome.data
compressGzip(outcome) == IF outcome.error THEN Null ELSE outcome.data
compressDeflate(outcome) == IF outcome.error THEN Null ELSE outcome.data

\* the result object compressContent starts with: buffer null, encoding null
NoCompression == [buffer |-> Null, encoding |-> "null"]

\* a call of compressContent that has not started
CompressIdle ==
  [pc |-> "idle", buffer |-> Null, acceptEncodingLower |-> <<>>,
   result |-> NoCompression, tried |-> <<>>]

\* compressContent from the if statement of the i-th coding on: the call
\* awaits the first coding from there whose name the header includes, and
\* returns the result object untouched when there is none
RECURSIVE TryFrom(_, _)
TryFrom(k, i) ==
  IF i > Len(Codings)
  THEN [k EXCEPT !.pc = "returned"]
  ELSE IF Includes(k.acceptEncodingLower, CodingName(Codings[i]))
       THEN [k EXCEPT !.pc = Codings[i]]
       ELSE TryFrom(k, i + 1)

\* the call up to its first await
compressContent(buffer, acceptEncoding) ==
  TryFrom([CompressIdle EXCEPT !.buffer = buffer,
                               !.acceptEncodingLower = ToLowerCase(acceptEncoding)], 1)

\* the position of the coding the call awaits
CodingIndex(coding) == CHOOSE i \in 1..Len(Codings) : Codings[i] = coding

\* what the call remembers of a coding it tried
Tried(coding, compressed) ==
  [coding |-> coding, failed |-> compressed = Null,
   length |-> IF compressed = Null THEN -1 ELSE Len(compressed)]

\* faulty variant: the result of the encoder is used without the test for
\* null, so that reading the length of null throws
OnCompressed_NoNullGuard(k, compressed) ==
  LET originalSize == Len(k.buffer)
      t == [k EXCEPT !.tried = Append(@, Tried(k.pc, compressed))]
  IN IF compressed = Null
     THEN [t EXCEPT !.pc = "thrown"]
     ELSE IF Len(compressed) < originalSize
          THEN [t EXCEPT !.pc = "returned",
                         !.result = [buffer |-> compressed, encoding |-> k.pc]]
          ELSE TryFrom(t, CodingIndex(k.pc) + 1)

\* faulty variant: an output as long as the original is accepted
OnCompressed_NotLonger(k, compressed) ==
  LET originalSize == Len(k.buffer)
      t == [k EXCEPT !.tried = Append(@, Tried(k.pc, compressed))]
  IN IF compressed # Null /\ Len(compressed) <= originalSize
     THEN [t EXCEPT !.pc = "returned",
                    !.result = [buffer |-> compressed, encoding |-> k.pc]]
     ELSE TryFrom(t, CodingIndex(k.pc) + 1)

\* the await of a compress function resolves with compressed (null or a
\* buffer): the coding is returned if its output is shorter than the
\* original, and the next if statement follows if not
OnCompressed(k, compressed) ==
  LET originalSize == Len(k.buffer)
      t == [k EXCEPT !.tried = Append(@, Tried(k.pc, compressed))]
  IN IF compressed # Null /\ Len(compressed) < originalSize
     THEN [t EXCEPT !.pc = "returned",
                    !.result = [buffer |-> compressed, encoding |-> k.pc]]
     ELSE TryFrom(t, CodingIndex(k.pc) + 1)

\* the compress function of the coding applied to what its encoder did
Compress(coding, outcome) ==
  CASE coding = "br" -> compressBrotli(outcome)
    [] coding = "gzip" -> compressGzip(outcome)
    [] coding = "deflate" -> compressDeflate(outcome)

(***************************************************************************)
(* The handler: its errors, its responses and the steps it takes once      *)
(* fetchFileWithCache has returned the file.                               *)
(***************************************************************************)
\* config.minCompressionSizeBytes, scaled down
MinCompressionSizeBytes == 2
minCompressionSizeBytes == MinCompressionSizeBytes

ValidationError == [name |-> "ValidationError", statusCode |-> 400]
\* the RateLimitError of checkLimit: its message names this.maxRequests
RateLimitError == [name |-> "RateLimitError", statusCode |-> 429, limit |-> maxRequests]
\* the errors of the runtime: require is not defined, null has no length
ReferenceError == [name |-> "ReferenceError", statusCode |-> 0]
TypeError == [name |-> "TypeError", statusCode |-> 0]

\* error instanceof CDNError
IsCDNError(error) ==
  error.name \in {"FileNotFoundError", "GitHubAPIError", "ValidationError", "RateLimitError"}

\* a header that the request or the response does not carry
NoHeader == "-"

\* error.message: the class that words it, and the limit it names if it is
\* the message of checkLimit
Message(error) ==
  [of |-> error.name,
   limit |-> IF error.name = "RateLimitError" THEN error.limit ELSE Undefined]
\* the JSON body of a response that is no error
NoErrorResponse == [error |-> [of |-> "null", limit |-> Undefined]]
\* the JSON body of an error that is no CDNError
UnexpectedErrorResponse == [error |-> [of |-> "Failed to retrieve file.", limit |-> Undefined]]

\* what the handler holds of a request: its position, its startTime, the
\* client, the validated path, the fetched file, its call of
\* compressContent, the services it has called so far in the order of the
\* calls, the error it has handed to sendError, and the response: status,
\* Content-Encoding, body, and the JSON body of an error
HttpIdle ==
  [pc |-> "idle", startTime |-> -1, clientId |-> NoKey, safePath |-> NoKey,
   fileBuffer |-> Null, k |-> CompressIdle, ops |-> <<>>, caught |-> NoError,
   status |-> 0, contentEncoding |-> NoHeader, body |-> Null,
   errorResponse |-> NoErrorResponse]

\* sendContent: the Content-Encoding header is set for an encoding that is
\* not null
sendContent(h, content, contentEncoding) ==
  [h EXCEPT !.pc = "sent", !.status = 200, !.body = content,
            !.contentEncoding = IF contentEncoding # "null" THEN contentEncoding ELSE NoHeader]

sendNotModified(h) == [h EXCEPT !.pc = "sent", !.status = 304]

\* faulty variant: the class of the error is not looked at
sendError_Generic(h, error) ==
  [h EXCEPT !.pc = "sent", !.caught = error, !.status = 500,
            !.errorResponse = UnexpectedErrorResponse]

sendError(h, error) ==
  [h EXCEPT !.pc = "sent", !.caught = error,
            !.status = IF IsCDNError(error) THEN error.statusCode ELSE 500,
            !.errorResponse = IF IsCDNError(error)
                              THEN [error |-> Message(error)]
                              ELSE UnexpectedErrorResponse]

sendMethodNotAllowed(h) == [h EXCEPT !.pc = "sent", !.status = 405]

\* the paths of the model: "a" stands for a script, the other keys for
\* images; path.extname(filePath).toLowerCase()
extname(filePath) == IF filePath = "a" THEN ".js" ELSE ".png"

\* MIME_TYPES[ext] || MIME_TYPES.default: the type and the subtype
getMimeType(filePath) ==
  CASE extname(filePath) = ".js" -> <<"application", "javascript">>
    [] extname(filePath) = ".png" -> <<"image", "png">>
    [] OTHER -> <<"application", "octet-stream">>

\* COMPRESSIBLE_TYPES_PREFIX.some(prefix => contentType.startsWith(prefix))
isCompressible(contentType) ==
  \/ contentType[1] \in {"text", "font"}
  \/ contentType \in {<<"application", "javascript">>, <<"application", "json">>,
                       <<"application", "xml">>, <<"application", "ld+json">>,
                       <<"image", "svg+xml">>}

shouldCompress(contentType, contentSize, minSize) ==
  isCompressible(contentType) /\ contentSize >= minSize

\* generateETag: the SHA-256 digest of the content, a sequence of numbers
\* that differs for different contents
generateETag(contentBuffer) == <<256>> \o contentBuffer

\* the If-None-Match header that quotes an ETag, and the absent header
Quoted(etag) == <<34>> \o etag \o <<34>>
NoIfNoneMatch == <<-1>>

\* hasValidCache
hasValidCache(ifNoneMatch, etag) == ifNoneMatch = Quoted(etag)

\* the Accept-Encoding header of a request: absent, or a string
NoAcceptEncoding == [defined |-> FALSE, text |-> <<>>]
AcceptEncoding(text) == [defined |-> TRUE, text |-> text]
\* req.headers['accept-encoding'] || ''
OrEmpty(header) == IF header.defined THEN header.text ELSE <<>>

\* the handler after its await of fetchFileWithCache, which has returned
\* fileBuffer: the ETag (generateETag calls require, which is defined in
\* builds that turn the module into CommonJS and undefined in an ES module,
\* where the call throws ReferenceError), the check of the client's cache,
\* and either the call of compressContent up to its first await or the
\* response with the file as it is
AfterFetch(h, fileBuffer, requireDefined, ifNoneMatch, acceptEncoding) ==
  LET mimeType == getMimeType(h.safePath)
      etag == generateETag(fileBuffer)
  IN IF ~requireDefined
     THEN sendError(h, ReferenceError)
     ELSE IF hasValidCache(ifNoneMatch, etag)
     THEN sendNotModified(h)
     ELSE IF shouldCompress(mimeType, Len(fileBuffer), minCompressionSizeBytes)
     THEN [h EXCEPT !.pc = "compressing", !.fileBuffer = fileBuffer,
                    !.k = compressContent(fileBuffer, OrEmpty(acceptEncoding)),
                    !.ops = Append(@, "compressContent")]
     ELSE sendContent([h EXCEPT !.fileBuffer = fileBuffer], fileBuffer, "null")

\* the handler after its await of compressContent: the compressed buffer
\* and its encoding are sent if the result has a buffer, the file as it is
\* if not; an exception of compressContent goes to the catch block
AfterCompress(h) ==
  IF h.k.pc = "thrown"
  THEN sendError(h, TypeError)
  ELSE IF h.k.result.buffer # Null
       THEN sendContent(h, h.k.result.buffer, h.k.result.encoding)
       ELSE sendContent(h, h.fileBuffer, "null")

\* req.query.file as the sequence of its characters: absent or empty
NoFile == <<>>

Reverse(str) == [i \in 1..Len(str) |-> str[Len(str) + 1 - i]]

RECURSIVE DropLeading(_, _)
\* str without the characters ch it starts with
DropLeading(str, ch) ==
  IF str # <<>> /\ Head(str) = ch THEN DropLeading(Tail(str), ch) ELSE str

\* String.prototype.trim
Trim(str) == Reverse(DropLeading(Reverse(DropLeading(str, " ")), " "))

\* str.replace(/^\/+/, '')
StripLeadingSlashes(str) == DropLeading(str, "/")

\* str.replace(/^\/+|\/+$/, ''): the pattern has no g flag, so that only its
\* first match is replaced: the leading slashes if the string has any, else
\* the trailing ones
StripSlashesOnce(str) ==
  IF str # <<>> /\ Head(str) = "/"
  THEN StripLeadingSlashes(str)
  ELSE Reverse(DropLeading(Reverse(str), "/"))

RECURSIVE SplitFrom(_, _, _)
\* str.split('/'): the segments, the one being read last
SplitFrom(str, done, segment) ==
  IF str = <<>> THEN Append(done, segment)
  ELSE IF Head(str) = "/" THEN SplitFrom(Tail(str), Append(done, segment), <<>>)
  ELSE SplitFrom(Tail(str), done, Append(segment, Head(str)))
Split(str) == SplitFrom(str, <<>>, <<>>)

RECURSIVE Join(_)
\* segments.join('/')
Join(segments) ==
  IF segments = <<>> THEN <<>>
  ELSE IF Len(segments) = 1 THEN segments[1]
  ELSE segments[1] \o <<"/">> \o Join(Tail(segments))

DotDot == <<".", ".">>

RECURSIVE normalizeString(_, _, _)
\* normalizeString of path.posix: the empty segments and "." are dropped,
\* ".." removes the segment before it, and is kept where there is none to
\* remove if the path may leave its root
normalizeString(segments, res, allowAboveRoot) ==
  IF segments = <<>> THEN res
  ELSE LET segment == Head(segments)
           rest == Tail(segments)
       IN IF segment = <<>> \/ segment = <<".">>
          THEN normalizeString(rest, res, allowAboveRoot)
          ELSE IF segment = DotDot
          THEN IF res # <<>> /\ res[Len(res)] # DotDot
               THEN normalizeString(rest, SubSeq(res, 1, Len(res) - 1), allowAboveRoot)
               ELSE IF allowAboveRoot
                    THEN normalizeString(rest, Append(res, DotDot), allowAboveRoot)
                    ELSE normalizeString(rest, res, allowAboveRoot)
          ELSE normalizeString(rest, Append(res, segment), allowAboveRoot)

\* path.posix.normalize
posixNormalize(path) ==
  IF path = <<>> THEN <<".">>
  ELSE LET isAbsolute == Head(path) = "/"
           trailingSeparator == path[Len(path)] = "/"
           normalized == Join(normalizeString(Split(path), <<>>, ~isAbsolute))
           separated == IF trailingSeparator THEN Append(normalized, "/") ELSE normalized
       IN IF normalized = <<>>
          THEN IF isAbsolute THEN <<"/">>
               ELSE IF trailingSeparator THEN <<".", "/">> ELSE <<".">>
          ELSE IF isAbsolute THEN <<"/">> \o separated ELSE separated

\* String.prototype.startsWith
StartsWith(str, searchString) ==
  Len(str) >= Len(searchString) /\ SubSeq(str, 1, Len(searchString)) = searchString

\* the null byte
Nul == "\\0"

\* faulty variant: only a traversal behind a slash is looked for
validateFilePath_NoStartsWith(filePath) ==
  LET safePath == posixNormalize(StripSlashesOnce(Trim(filePath)))
  IN IF filePath = NoFile
     THEN [threw |-> TRUE, safePath |-> <<>>]
     ELSE IF Includes(safePath, <<"/", ".", ".">>)
     THEN [threw |-> TRUE, safePath |-> <<>>]
     ELSE IF safePath = <<>> \/ safePath = <<".">>
     THEN [threw |-> TRUE, safePath |-> <<>>]
     ELSE IF Includes(safePath, <<Nul>>)
     THEN [threw |-> TRUE, safePath |-> <<>>]
     ELSE [threw |-> FALSE, safePath |-> safePath]

\* validateFilePath: threw stands for its ValidationError
validateFilePath(filePath) ==
  LET safePath == posixNormalize(StripSlashesOnce(Trim(filePath)))
  IN IF filePath = NoFile
     THEN [threw |-> TRUE, safePath |-> <<>>]
     ELSE IF StartsWith(safePath, DotDot) \/ Includes(safePath, <<"/", ".", ".">>)
     THEN [threw |-> TRUE, safePath |-> <<>>]
     ELSE IF safePath = <<>> \/ safePath = <<".">>
     THEN [threw |-> TRUE, safePath |-> <<>>]
     ELSE IF Includes(safePath, <<Nul>>)
     THEN [threw |-> TRUE, safePath |-> <<>>]
     ELSE [threw |-> FALSE, safePath |-> safePath]

\* no call of validateFilePath
NoValidation == [pc |-> "idle", filePath |-> <<>>, threw |-> FALSE, safePath |-> <<>>]

\* the string of a path: the files of the repository have names of one
\* character
PathString(path) == path[1]

\* filePath.replace(/^\/+/, '') of fetchFileWithCache and of fetchFile, as
\* the key of the cache
NormalizedPath(filePath) == PathString(StripLeadingSlashes(filePath))

\* getClientId: the first address of x-forwarded-for, or x-real-ip, or the
\* remote address of the connection
getClientId(headers) ==
  IF headers.forwarded # <<>> THEN Head(headers.forwarded)
  ELSE IF headers.realIp # NoHeader THEN headers.realIp
  ELSE IF headers.remoteAddress # NoHeader THEN headers.remoteAddress
  ELSE "unknown"

\* faulty variant: the file is looked up and fetched before the limiter is
\* asked
handler_CacheFirst(o, m, method, file, headers, t) ==
  LET h0 == [HttpIdle EXCEPT !.startTime = t]
      Untouched(h) ==
        [cache |-> o.cache, currentSizeBytes |-> o.currentSizeBytes,
         requests |-> m, req |-> ReqIdle, h |-> h]
      safe == validateFilePath(file)
      clientId == getClientId(headers)
      limit == checkLimit(m, clientId, t)
      normalizedPath == NormalizedPath(safe.safePath)
      g == LRUCache_get(o, normalizedPath, t)
      h1 == [h0 EXCEPT !.clientId = clientId, !.safePath = normalizedPath,
                       !.ops = <<"cache.get", "checkLimit">>]
  IN IF method # "GET"
     THEN Untouched(sendMethodNotAllowed(h0))
     ELSE IF safe.threw
     THEN Untouched(sendError(h0, ValidationError))
     ELSE IF ~limit.ret
     THEN [cache |-> g.cache, currentSizeBytes |-> g.currentSizeBytes,
           requests |-> limit.requests, req |-> ReqIdle,
           h |-> sendError(h1, RateLimitError)]
     ELSE IF g.ret # Null
     THEN [cache |-> g.cache, currentSizeBytes |-> g.currentSizeBytes,
           requests |-> limit.requests,
           req |-> [ReqIdle EXCEPT !.pc = "done", !.path = normalizedPath, !.result = g.ret],
           h |-> [h1 EXCEPT !.pc = "fetching"]]
     ELSE [cache |-> g.cache, currentSizeBytes |-> g.currentSizeBytes,
           requests |-> limit.requests,
           req |-> [ReqIdle EXCEPT !.pc = "fetching", !.path = normalizedPath,
                                   !.f = FetchIssue(FetchIdle)],
           h |-> [h1 EXCEPT !.pc = "fetching", !.ops = Append(@, "fetchFile")]]

\* the handler up to its first await, on the cache o and the limiter Map m
\* at time t: the method, the path, the limiter, and fetchFileWithCache up
\* to its await; what it leaves of the cache, of the limiter, of the request
\* in fetchFileWithCache (req) and in the handler (h)
\* faulty variant: the limiter is asked before the path is validated, so
\* that a request with a refused path takes a slot
handler_LimiterFirst(o, m, method, file, headers, t) ==
  LET h0 == [HttpIdle EXCEPT !.startTime = t]
      Untouched(h) ==
        [cache |-> o.cache, currentSizeBytes |-> o.currentSizeBytes,
         requests |-> m, req |-> ReqIdle, h |-> h]
      safe == validateFilePath(file)
      clientId == getClientId(headers)
      limit == checkLimit(m, clientId, t)
      normalizedPath == NormalizedPath(safe.safePath)
      g == LRUCache_get(o, normalizedPath, t)
      hl == [h0 EXCEPT !.clientId = clientId, !.ops = <<"checkLimit">>]
      h1 == [hl EXCEPT !.safePath = normalizedPath]
      h2 == [h1 EXCEPT !.pc = "fetching", !.ops = Append(@, "cache.get")]
  IN IF method # "GET"
     THEN Untouched(sendMethodNotAllowed(h0))
     ELSE IF ~limit.ret
     THEN [cache |-> o.cache, currentSizeBytes |-> o.currentSizeBytes,
           requests |-> limit.requests, req |-> ReqIdle,
           h |-> sendError(hl, RateLimitError)]
     ELSE IF safe.threw
     THEN [cache |-> o.cache, currentSizeBytes |-> o.currentSizeBytes,
           requests |-> limit.requests, req |-> ReqIdle,
           h |-> sendError(hl, ValidationError)]
     ELSE IF g.ret # Null
     THEN [cache |-> g.cache, currentSizeBytes |-> g.currentSizeBytes,
           requests |-> limit.requests,
           req |-> [ReqIdle EXCEPT !.pc = "done", !.path = normalizedPath, !.result = g.ret],
           h |-> h2]
     ELSE [cache |-> g.cache, currentSizeBytes |-> g.currentSizeBytes,
           requests |-> limit.requests,
           req |-> [ReqIdle EXCEPT !.pc = "fetching", !.path = normalizedPath,
                                   !.f = FetchIssue(FetchIdle)],
           h |-> [h2 EXCEPT !.ops = Append(@, "fetchFile")]]

handler(o, m, method, file, headers, t) ==
  LET h0 == [HttpIdle EXCEPT !.startTime = t]
      Untouched(h) ==
        [cache |-> o.cache, currentSizeBytes |-> o.currentSizeBytes,
         requests |-> m, req |-> ReqIdle, h |-> h]
      safe == validateFilePath(file)
      clientId == getClientId(headers)
      limit == checkLimit(m, clientId, t)
      normalizedPath == NormalizedPath(safe.safePath)
      g == LRUCache_get(o, normalizedPath, t)
      h1 == [h0 EXCEPT !.clientId = clientId, !.safePath = normalizedPath,
                       !.ops = <<"checkLimit">>]
      h2 == [h1 EXCEPT !.pc = "fetching", !.ops = Append(@, "cache.get")]
  IN IF method # "GET"
     THEN Untouched(sendMethodNotAllowed(h0))
     ELSE IF safe.threw
     THEN Untouched(sendError(h0, ValidationError))
     ELSE IF ~limit.ret
     THEN [cache |-> o.cache, currentSizeBytes |-> o.currentSizeBytes,
           requests |-> limit.requests, req |-> ReqIdle,
           h |-> sendError(h1, RateLimitError)]
     ELSE IF g.ret # Null
     THEN [cache |-> g.cache, currentSizeBytes |-> g.currentSizeBytes,
           requests |-> limit.requests,
           req |-> [ReqIdle EXCEPT !.pc = "done", !.path = normalizedPath, !.result = g.ret],
           h |-> h2]
     ELSE [cache |-> g.cache, currentSizeBytes |-> g.currentSizeBytes,
           requests |-> limit.requests,
           req |-> [ReqIdle EXCEPT !.pc = "fetching", !.path = normalizedPath,
                                   !.f = FetchIssue(FetchIdle)],
           h |-> [h2 EXCEPT !.ops = Append(@, "fetchFile")]]

(***************************************************************************)
(* The analytics script (script.js, the IIFE at its top): it runs in a     *)
(* page, keeps a session id in sessionStorage and an opt-out flag in       *)
(* localStorage, and posts pageview and event payloads.                    *)
(***************************************************************************)
\* TIMEOUT, 20 minutes in the script, scaled down
TIMEOUT == 1000

\* what genID returns: Math.random decides
Ids == {"s", "t"}
\* null: no session id, no uid, an absent storage item
NoId == "null"

\* location.href
Urls == {"u", "v"}

\* the payload of a step that sends none
NoPayload == [type |-> "none", sessionId |-> NoId, uid |-> NoId, url |-> "-", ts |-> -1]

\* what a step of the script did: its name, whether it was an instant of
\* activity or tracking, whether it called pageview or trackEvent, whether it
\* called genID for a session id, and the payload it handed to send
Did(op) == [op |-> op, instant |-> FALSE, tracked |-> FALSE, generated |-> FALSE,
            sent |-> NoPayload]

\* the step is an instant of activity or tracking
Seen(p, t) == [p EXCEPT !.lastSeen = t, !.last.instant = TRUE]

\* a window in which the script does not run
NoPage ==
  [optOut |-> FALSE, sidKey |-> NoId, uidKey |-> NoId, sid |-> NoId, lastActivity |-> 0,
   url |-> "-", href |-> "-", timers |-> 0, lastSeen |-> 0, last |-> Did("none")]

\* getSID: ret is the id; id is what genID returns if it is called
getSID(p, id) ==
  IF p.optOut
  THEN [p |-> p, ret |-> NoId]
  ELSE IF p.sidKey = NoId
       THEN [p |-> [p EXCEPT !.sidKey = id, !.last.generated = TRUE], ret |-> id]
       ELSE [p |-> p, ret |-> p.sidKey]

\* getUID
getUID(p, uid) ==
  IF p.optOut
  THEN [p |-> p, ret |-> NoId]
  ELSE IF p.uidKey = NoId
       THEN [p |-> [p EXCEPT !.uidKey = uid], ret |-> uid]
       ELSE [p |-> p, ret |-> p.uidKey]

\* faulty variant: the session id is renewed at every call
refresh_Always(p, id, t) ==
  LET q == IF ~p.optOut
           THEN [p EXCEPT !.sid = id, !.sidKey = id, !.last.generated = TRUE]
           ELSE [p EXCEPT !.sid = NoId]
  IN [q EXCEPT !.lastActivity = t]

\* faulty variant: the opt-out flag is not looked at when the session has
\* timed out
refresh_IgnoresOptOut(p, id, t) ==
  LET q == IF t - p.lastActivity > TIMEOUT
           THEN [p EXCEPT !.sid = id, !.sidKey = id, !.last.generated = TRUE]
           ELSE p
  IN [q EXCEPT !.lastActivity = t]

\* refresh, at Date.now() = t
refresh(p, id, t) ==
  LET q == IF t - p.lastActivity > TIMEOUT
           THEN IF ~p.optOut
                THEN [p EXCEPT !.sid = id, !.sidKey = id, !.last.generated = TRUE]
                ELSE [p EXCEPT !.sid = NoId]
           ELSE p
  IN [q EXCEPT !.lastActivity = t]

\* send: the payload is posted; what the endpoint answers is logged only
send(p, payload) == [p EXCEPT !.last.sent = payload]

\* the body of pageview and of trackEvent: the call is an instant of
\* tracking if the script has a session id
Track(p, type, id, uid, t) ==
  IF p.sid = NoId
  THEN [p EXCEPT !.last.tracked = TRUE]
  ELSE LET q == refresh(Seen([p EXCEPT !.last.tracked = TRUE], t), id, t)
       IN IF q.sid = NoId
          THEN q
          ELSE LET u == getUID(q, uid)
               IN send(u.p, [type |-> type, sessionId |-> q.sid, uid |-> u.ret,
                             url |-> q.href, ts |-> t])

pageview(p, id, uid, t) == Track(p, "pageview", id, uid, t)

trackEvent(p, id, uid, t) == Track(p, "event", id, uid, t)

\* the test of the navigation handlers: a pageview if location.href is not
\* the url the script knows
IfNavigated(p, id, uid, t) ==
  IF p.href # p.url
  THEN pageview([p EXCEPT !.url = p.href], id, uid, t)
  ELSE p

handleVisibilityChange(p, visible, id, uid, t) ==
  IF visible
  THEN IfNavigated(refresh(Seen(p, t), id, t), id, uid, t)
  ELSE p

handlePopState(p, id, uid, t) == IfNavigated(p, id, uid, t)

optOutAnalytics(p) ==
  [p EXCEPT !.optOut = TRUE, !.sidKey = NoId, !.uidKey = NoId, !.sid = NoId]

optInAnalytics(p, id) ==
  LET g == getSID([p EXCEPT !.optOut = FALSE], id)
  IN [g.p EXCEPT !.sid = g.ret]

\* the script from its first line to its last, in a window with these
\* storages and this location, at Date.now() = t
LoadScript(optOut, sidKey, uidKey, href, id, uid, t) ==
  LET p0 == [NoPage EXCEPT !.optOut = optOut, !.sidKey = sidKey, !.uidKey = uidKey,
                           !.href = href, !.url = href, !.lastActivity = t,
                           !.lastSeen = t, !.last = [Did("load") EXCEPT !.instant = TRUE]]
      g == getSID(p0, id)
  IN pageview([g.p EXCEPT !.sid = g.ret], id, uid, t)

(***************************************************************************)
(* The cache on its own: any sequence of set, get, delete, clearExpired    *)
(* and clear, with the clock advancing in between.                         *)
(***************************************************************************)
NoOp == [op |-> "none", key |-> NoKey, data |-> Null, ok |-> FALSE, n |-> 0,
         evicted |-> <<>>, expired |-> FALSE, replaced |-> FALSE]

\* the bookkeeping of insertion times, kept for the stored keys only
Stored(f, c, none) == [k \in Keys |-> IF Has(c, k) THEN f[k] ELSE none]
\* the ranks of the last touches f of the keys stored in c
Ranked(f, c) ==
  [k \in Keys |-> IF Has(c, k)
                  THEN Cardinality({j \in KeysOf(c) : f[j] <= f[k]})
                  ELSE 0]
\* key has just been touched: its touch is later than every other
Touched(f, key) == [f EXCEPT ![key] = Cardinality(Keys) + 1]

CacheInit ==
  /\ cache = <<>>
  /\ currentSizeBytes = 0
  /\ spinning = FALSE
  /\ now = 0
  /\ lastTouch = [k \in Keys |-> 0]
  /\ insertedAt = [k \in Keys |-> -1]
  /\ lastOp = NoOp

\* the state of the module once loaded: the empty fileCache, the githubClient
Init ==
  /\ CacheInit
  /\ ttlSeconds = TtlSeconds
  /\ client = githubClient
  /\ fetch = FetchIdle
  /\ fetchLog = <<>>
  /\ reqs = [r \in Reqs |-> ReqIdle]
  /\ LimiterInit
  /\ compress = HttpIdle
  /\ http = [r \in Reqs |-> HttpIdle]
  /\ page = NoPage
  /\ unswept = NoRequests
  /\ timer = NoTimer
  /\ validation = NoValidation

Tick ==
  /\ ~spinning
  /\ now + TickMs <= MaxTime
  /\ now' = now + TickMs
  /\ lastOp' = [NoOp EXCEPT !.op = "tick"]
  /\ UNCHANGED <<ttlSeconds, cache, currentSizeBytes, spinning, lastTouch, insertedAt, fetchVars, reqs, limiterVars, validation, timer, unswept, page, compress, http>>

Set(key, data) ==
  /\ ~spinning
  /\ LET r == LRUCache_set(CacheObj, key, data, now)
     IN /\ cache' = r.cache
        /\ currentSizeBytes' = r.currentSizeBytes
        /\ spinning' = r.spin
        /\ lastTouch' = IF r.ret
                        THEN Ranked(Touched(lastTouch, key), r.cache)
                        ELSE lastTouch
        /\ insertedAt' = IF r.ret
                         THEN Stored([insertedAt EXCEPT ![key] = now], r.cache, -1)
                         ELSE insertedAt
        /\ lastOp' = [NoOp EXCEPT !.op = "set", !.key = key, !.data = data, !.ok = r.ret,
                                   !.evicted = r.evicted,
                                   !.replaced = r.ret /\ Has(cache, key)]
  /\ UNCHANGED <<ttlSeconds, now, fetchVars, reqs, limiterVars, validation, timer, unswept, page, compress, http>>

Get(key) ==
  /\ ~spinning
  /\ LET r == LRUCache_get(CacheObj, key, now)
     IN /\ cache' = r.cache
        /\ currentSizeBytes' = r.currentSizeBytes
        /\ lastTouch' = IF r.hit
                        THEN Ranked(Touched(lastTouch, key), r.cache)
                        ELSE Ranked(lastTouch, r.cache)
        /\ insertedAt' = Stored(insertedAt, r.cache, -1)
        /\ lastOp' = [NoOp EXCEPT !.op = "get", !.key = key, !.data = r.ret, !.ok = r.hit,
                                   !.expired = r.expired]
  /\ UNCHANGED <<ttlSeconds, spinning, now, fetchVars, reqs, limiterVars, validation, timer, unswept, page, compress, http>>

Delete(key) ==
  /\ ~spinning
  /\ LET r == LRUCache_delete(CacheObj, key)
     IN /\ cache' = r.cache
        /\ currentSizeBytes' = r.currentSizeBytes
        /\ lastTouch' = Ranked(lastTouch, r.cache)
        /\ insertedAt' = Stored(insertedAt, r.cache, -1)
        /\ lastOp' = [NoOp EXCEPT !.op = "delete", !.key = key, !.ok = r.ret]
  /\ UNCHANGED <<ttlSeconds, spinning, now, fetchVars, reqs, limiterVars, validation, timer, unswept, page, compress, http>>

ClearExpired ==
  /\ ~spinning
  /\ LET r == LRUCache_clearExpired(CacheObj, now)
     IN /\ cache' = r.cache
        /\ currentSizeBytes' = r.currentSizeBytes
        /\ lastTouch' = Ranked(lastTouch, r.cache)
        /\ insertedAt' = Stored(insertedAt, r.cache, -1)
        /\ lastOp' = [NoOp EXCEPT !.op = "clearExpired", !.ok = TRUE, !.n = r.ret]
  /\ UNCHANGED <<ttlSeconds, spinning, now, fetchVars, reqs, limiterVars, validation, timer, unswept, page, compress, http>>

Clear ==
  /\ ~spinning
  /\ LET r == LRUCache_clear(CacheObj)
     IN /\ cache' = r.cache
        /\ currentSizeBytes' = r.currentSizeBytes
        /\ lastTouch' = Ranked(lastTouch, r.cache)
        /\ insertedAt' = Stored(insertedAt, r.cache, -1)
        /\ lastOp' = [NoOp EXCEPT !.op = "clear", !.ok = TRUE]
  /\ UNCHANGED <<ttlSeconds, spinning, now, fetchVars, reqs, limiterVars, validation, timer, unswept, page, compress, http>>

CacheNext ==
  \/ Tick
  \/ \E key \in Keys, data \in Payloads : Set(key, data)
  \/ \E key \in Keys : Get(key)
  \/ \E key \in Keys : Delete(key)
  \/ ClearExpired
  \/ Clear

CacheSpec == Init /\ [][CacheNext]_vars

(***************************************************************************)
(* Properties of the cache                                                 *)
(***************************************************************************)
\* C1: after every operation the sizes of the stored entries sum to at most
\* maxSizeBytes.
C1_SizeBound == SumSizes(cache) <= maxSizeBytes

\* a set has just evicted to make room in bytes, and the cache is full to the byte
C1_Witness ==
  /\ lastOp.op = "set" /\ lastOp.ok
  /\ Len(lastOp.evicted) >= 1
  /\ SumSizes(cache) = maxSizeBytes
  /\ Len(cache) = 2

\* C2: after every operation the number of stored entries is at most
\* maxEntries, whatever the bytes in use.
C2_CountBound == Len(cache) <= maxEntries

\* a set has just evicted on count alone: the evicted entry and the new one
\* together with the rest were far below the byte budget
C2_Witness ==
  /\ lastOp.op = "set" /\ lastOp.ok
  /\ Len(lastOp.evicted) = 1
  /\ Len(cache) = maxEntries
  /\ SumSizes(cache) + lastOp.evicted[1].size < maxSizeBytes

\* C4: the entries a set evicts are the least recently touched ones, oldest
\* last touch first: each evicted entry was touched before the next evicted
\* one and before every entry that survives.
C4_LRUEviction ==
  [][(lastOp'.op = "set" /\ lastOp'.ok) =>
       LET ev == lastOp'.evicted
           evKeys == {ev[i].key : i \in 1..Len(ev)}
           survivors == KeysOf(cache) \ (evKeys \cup {lastOp'.key})
       IN /\ evKeys \subseteq KeysOf(cache)
          /\ \A i, j \in 1..Len(ev) : i < j => lastTouch[ev[i].key] < lastTouch[ev[j].key]
          /\ \A i \in 1..Len(ev) : \A k \in survivors : lastTouch[ev[i].key] < lastTouch[k]
    ]_cacheVars

\* a set has evicted an entry although an entry inserted before it is still
\* stored: the older entry was promoted by a get
C4_Witness ==
  /\ lastOp.op = "set" /\ lastOp.ok
  /\ Len(lastOp.evicted) = 1
  /\ \E k \in KeysOf(cache) \ {lastOp.key} :
       insertedAt[k] + ttlSeconds * MsPerSecond < lastOp.evicted[1].expiresAt

\* C5: get returns a stored entry at every time before its insertion time
\* plus the TTL, and from that instant on (the instant included) it returns
\* null and removes the entry and its size.
C5_TTL ==
  [][lastOp'.op = "get" =>
       LET key == lastOp'.key
       IN IF Has(cache, key)
          THEN LET entry == Entry(cache, key)
               IN IF now < insertedAt[key] + TtlSeconds * MsPerSecond
                  THEN /\ lastOp'.data = entry.data
                       /\ Has(cache', key)
                  ELSE /\ lastOp'.data = Null
                       /\ ~Has(cache', key)
                       /\ Len(cache') = Len(cache) - 1
                       /\ currentSizeBytes' = currentSizeBytes - entry.size
          ELSE lastOp'.data = Null
    ]_cacheVars

\* a get has found an entry expired at exactly its insertion time plus the TTL
\* (the entry was inserted at time 0)
C5_Witness ==
  /\ lastOp.op = "get" /\ lastOp.expired
  /\ now = TtlSeconds * MsPerSecond

\* C6: a set whose payload is larger than maxSizeBytes returns false and
\* changes nothing: the entries, their order and the tracked size stay.
C6_OversizeRejected ==
  [][(lastOp'.op = "set" /\ byteLength(lastOp'.data) > maxSizeBytes) =>
       /\ ~lastOp'.ok
       /\ cache' = cache
       /\ currentSizeBytes' = currentSizeBytes
    ]_cacheVars

\* an oversize set was rejected while an entry is stored under the same key
C6_Witness ==
  /\ lastOp.op = "set" /\ ~lastOp.ok
  /\ byteLength(lastOp.data) > maxSizeBytes
  /\ Has(cache, lastOp.key)
  /\ Len(cache) = 2

(***************************************************************************)
(* GitHubClient.fetchFile on its own: one call on a client constructed     *)
(* with any options, against an origin that answers each attempt in any    *)
(* way.                                                                    *)
(***************************************************************************)
\* the largest maxRetries option
MaxRetriesOption == 2
\* the retryDelay option supplied
RetryDelayOption == 100

\* the statuses the origin answers with
Statuses == {200, 403, 404, 429, 500}
\* the payloads the origin serves: two of them do not fit in the cache
\* together, and one is larger than the whole cache
OriginPayloads == {Payload(n, b) : n \in {MaxSizeBytes - 1, MaxSizeBytes + 1}, b \in Bytes}

ClientOptions ==
  [maxRetries : {Undefined} \cup 0..MaxRetriesOption,
   retryDelay : {Undefined, RetryDelayOption},
   timeout : {Undefined}]

\* what an attempt ended with: the status of the response (0 if none) and
\* the rejection of fetch or of the read of the body ("no" if none)
Answer(status, rejected) == [status |-> status, rejected |-> rejected]

FetchInit ==
  /\ CacheInit
  /\ ttlSeconds = TtlSeconds
  /\ client \in {GitHubClient(o) : o \in ClientOptions}
  /\ fetch = FetchIdle
  /\ fetchLog = <<>>
  /\ reqs = [r \in Reqs |-> ReqIdle]
  /\ LimiterInit
  /\ compress = HttpIdle
  /\ http = [r \in Reqs |-> HttpIdle]
  /\ page = NoPage
  /\ unswept = NoRequests
  /\ timer = NoTimer
  /\ validation = NoValidation

FetchFile ==
  /\ fetch.pc = "idle"
  /\ fetch' = FetchIssue(fetch)
  /\ UNCHANGED <<client, fetchLog, cacheVars, reqs, limiterVars, validation, timer, unswept, page, compress, http>>

Respond(status) ==
  /\ fetch.pc = "fetch"
  /\ fetch' = OnResponse(client, fetch, status)
  /\ fetchLog' = IF status = 404 THEN Append(fetchLog, Answer(status, "no")) ELSE fetchLog
  /\ UNCHANGED <<client, cacheVars, reqs, limiterVars, validation, timer, unswept, page, compress, http>>

\* fetch rejects: the deadline (AbortError) or a transport error
RejectFetch(error) ==
  /\ fetch.pc = "fetch"
  /\ fetch' = Catch(client, fetch, error)
  /\ fetchLog' = Append(fetchLog, Answer(0, error.name))
  /\ UNCHANGED <<client, cacheVars, reqs, limiterVars, validation, timer, unswept, page, compress, http>>

BufferDone(data) ==
  /\ fetch.pc = "buffer"
  /\ fetch' = OnBuffer(fetch, data)
  /\ fetchLog' = Append(fetchLog, Answer(fetch.status, "no"))
  /\ UNCHANGED <<client, cacheVars, reqs, limiterVars, validation, timer, unswept, page, compress, http>>

TextDone ==
  /\ fetch.pc = "text"
  /\ fetch' = OnText(client, fetch)
  /\ fetchLog' = Append(fetchLog, Answer(fetch.status, "no"))
  /\ UNCHANGED <<client, cacheVars, reqs, limiterVars, validation, timer, unswept, page, compress, http>>

\* the read of the body rejects with a transport error
BodyFail ==
  /\ fetch.pc \in {"buffer", "text"}
  /\ fetch' = Catch(client, fetch, FetchError)
  /\ fetchLog' = Append(fetchLog, Answer(fetch.status, "FetchError"))
  /\ UNCHANGED <<client, cacheVars, reqs, limiterVars, validation, timer, unswept, page, compress, http>>

SleepDone ==
  /\ fetch.pc = "sleep"
  /\ fetch' = OnSleepDone(fetch)
  /\ UNCHANGED <<client, fetchLog, cacheVars, reqs, limiterVars, validation, timer, unswept, page, compress, http>>

FetchNext ==
  \/ FetchFile
  \/ \E status \in Statuses : Respond(status)
  \/ \E error \in {AbortError, FetchError} : RejectFetch(error)
  \/ \E data \in OriginPayloads : BufferDone(data)
  \/ TextDone
  \/ BodyFail
  \/ SleepDone

FetchSpec == FetchInit /\ [][FetchNext]_vars

(***************************************************************************)
(* The handler: concurrent requests, each in fetchFileWithCache, on the    *)
(* shared fileCache and githubClient.  A request runs from one await to    *)
(* the next without interruption; between two of its steps the steps of    *)
(* the other requests and the clock may come in any order.                 *)
(***************************************************************************)
\* the paths requested: one of two keys, with or without a leading slash
RequestKeys == {"a", "b"}
FilePaths == {slashes \o <<key>> : slashes \in {<<>>, <<"/">>}, key \in RequestKeys}

\* the statuses the origin answers the handler's requests with: one of each
\* kind that fetchFile tells apart after its read of the body (403, 429 and
\* 500 lead it to the same states)
HandlerStatuses == {200, 404, 500}

\* fetchFileWithCache up to its await: the cache is read and, on a miss,
\* githubClient.fetchFile issues its first request
Request(r, filePath) ==
  /\ ~spinning
  /\ reqs[r].pc = "idle"
  /\ LET normalizedPath == NormalizedPath(filePath)
         g == LRUCache_get(CacheObj, normalizedPath, now)
     IN /\ cache' = g.cache
        /\ currentSizeBytes' = g.currentSizeBytes
        /\ reqs' = [reqs EXCEPT ![r] =
                      IF g.ret # Null
                      THEN [ReqIdle EXCEPT !.pc = "done", !.path = normalizedPath,
                                           !.result = g.ret]
                      ELSE [ReqIdle EXCEPT !.pc = "fetching", !.path = normalizedPath,
                                           !.f = FetchIssue(FetchIdle)]]
  /\ UNCHANGED <<ttlSeconds, spinning, now, lastTouch, insertedAt, lastOp, fetchVars, limiterVars, validation, timer, unswept, page, compress, http>>

\* the steps of the request's fetchFile
OriginRespond(r, status) ==
  /\ ~spinning
  /\ reqs[r].pc = "fetching" /\ reqs[r].f.pc = "fetch"
  /\ reqs' = [reqs EXCEPT ![r].f = OnResponse(client, @, status)]
  /\ UNCHANGED <<cacheVars, fetchVars, limiterVars, validation, timer, unswept, page, compress, http>>

OriginReject(r, error) ==
  /\ ~spinning
  /\ reqs[r].pc = "fetching" /\ reqs[r].f.pc = "fetch"
  /\ reqs' = [reqs EXCEPT ![r].f = Catch(client, @, error)]
  /\ UNCHANGED <<cacheVars, fetchVars, limiterVars, validation, timer, unswept, page, compress, http>>

OriginBuffer(r, data) ==
  /\ ~spinning
  /\ reqs[r].pc = "fetching" /\ reqs[r].f.pc = "buffer"
  /\ reqs' = [reqs EXCEPT ![r].f = OnBuffer(@, data)]
  /\ UNCHANGED <<cacheVars, fetchVars, limiterVars, validation, timer, unswept, page, compress, http>>

OriginText(r) ==
  /\ ~spinning
  /\ reqs[r].pc = "fetching" /\ reqs[r].f.pc = "text"
  /\ reqs' = [reqs EXCEPT ![r].f = OnText(client, @)]
  /\ UNCHANGED <<cacheVars, fetchVars, limiterVars, validation, timer, unswept, page, compress, http>>

OriginBodyFail(r) ==
  /\ ~spinning
  /\ reqs[r].pc = "fetching" /\ reqs[r].f.pc \in {"buffer", "text"}
  /\ reqs' = [reqs EXCEPT ![r].f = Catch(client, @, FetchError)]
  /\ UNCHANGED <<cacheVars, fetchVars, limiterVars, validation, timer, unswept, page, compress, http>>

BackoffDone(r) ==
  /\ ~spinning
  /\ reqs[r].pc = "fetching" /\ reqs[r].f.pc = "sleep"
  /\ reqs' = [reqs EXCEPT ![r].f = OnSleepDone(@)]
  /\ UNCHANGED <<cacheVars, fetchVars, limiterVars, validation, timer, unswept, page, compress, http>>

\* fetchFileWithCache after its await, fetchFile having returned: the buffer
\* is stored and returned
Store(r) ==
  /\ ~spinning
  /\ reqs[r].pc = "fetching" /\ reqs[r].f.pc = "returned"
  /\ LET s == LRUCache_set(CacheObj, reqs[r].path, reqs[r].f.buffer, now)
     IN /\ cache' = s.cache
        /\ currentSizeBytes' = s.currentSizeBytes
        /\ spinning' = s.spin
        /\ reqs' = [reqs EXCEPT ![r] = [ReqIdle EXCEPT !.pc = "done", !.path = reqs[r].path,
                                                       !.result = reqs[r].f.buffer]]
  /\ UNCHANGED <<ttlSeconds, now, lastTouch, insertedAt, lastOp, fetchVars, limiterVars, validation, timer, unswept, page, compress, http>>

\* faulty variant: the failure is swallowed, an empty buffer is stored for
\* the path and returned
Propagate_StoresEmpty(r) ==
  /\ ~spinning
  /\ reqs[r].pc = "fetching" /\ reqs[r].f.pc = "thrown"
  /\ LET s == LRUCache_set(CacheObj, reqs[r].path, <<>>, now)
     IN /\ cache' = s.cache
        /\ currentSizeBytes' = s.currentSizeBytes
        /\ spinning' = s.spin
        /\ reqs' = [reqs EXCEPT ![r] = [ReqIdle EXCEPT !.pc = "done", !.path = reqs[r].path,
                                                       !.result = <<>>]]
  /\ UNCHANGED <<ttlSeconds, now, lastTouch, insertedAt, lastOp, fetchVars, limiterVars, validation, timer, unswept, page, compress, http>>

\* fetchFileWithCache after its await, fetchFile having thrown: the error
\* goes to the caller
Propagate(r) ==
  /\ ~spinning
  /\ reqs[r].pc = "fetching" /\ reqs[r].f.pc = "thrown"
  /\ reqs' = [reqs EXCEPT ![r] = [ReqIdle EXCEPT !.pc = "failed", !.path = reqs[r].path,
                                                 !.error = reqs[r].f.error]]
  /\ UNCHANGED <<cacheVars, fetchVars, limiterVars, validation, timer, unswept, page, compress, http>>

\* the response is sent and the request is over
Reply(r) ==
  /\ ~spinning
  /\ reqs[r].pc \in {"done", "failed"}
  /\ reqs' = [reqs EXCEPT ![r] = ReqIdle]
  /\ UNCHANGED <<cacheVars, fetchVars, limiterVars, validation, timer, unswept, page, compress, http>>

Next ==
  \/ Tick
  \/ \E r \in Reqs, filePath \in FilePaths : Request(r, filePath)
  \/ \E r \in Reqs, status \in HandlerStatuses : OriginRespond(r, status)
  \/ \E r \in Reqs, error \in {AbortError, FetchError} : OriginReject(r, error)
  \/ \E r \in Reqs, data \in OriginPayloads : OriginBuffer(r, data)
  \/ \E r \in Reqs : OriginText(r)
  \/ \E r \in Reqs : OriginBodyFail(r)
  \/ \E r \in Reqs : BackoffDone(r)
  \/ \E r \in Reqs : Store(r)
  \/ \E r \in Reqs : Propagate(r)
  \/ \E r \in Reqs : Reply(r)

Spec == Init /\ [][Next]_vars

\* C3: under every interleaving of the requests the tracked size of the
\* cache is the sum of the sizes of the entries it stores.
C3_NoAccountingDrift == currentSizeBytes = SumSizes(cache)

\* two requests for different paths missed the cache and fetched at the same
\* time, their payloads do not fit together, and both have stored
C3_Witness ==
  /\ \A r \in Reqs : reqs[r].pc = "done"
  /\ reqs[1].path # reqs[2].path
  /\ byteLength(reqs[1].result) + byteLength(reqs[2].result) > maxSizeBytes
  /\ byteLength(reqs[1].result) <= maxSizeBytes
  /\ byteLength(reqs[2].result) <= maxSizeBytes
  /\ Len(cache) = 1

\* what a step does with a request whose fetch fails: the step in which
\* fetchFile throws and the step in which fetchFileWithCache passes the error
\* on leave the cache as it is, the caller gets the error of fetchFile and no
\* buffer, and the failed request does nothing more
FailedFetchStep(r) ==
  /\ (reqs[r].pc = "fetching" /\ reqs[r].f.pc # "thrown" /\ reqs'[r].f.pc = "thrown") =>
       /\ reqs'[r].pc = "fetching"
       /\ cache' = cache /\ currentSizeBytes' = currentSizeBytes
  /\ (reqs[r].f.pc = "thrown" /\ reqs'[r] # reqs[r]) =>
       /\ reqs'[r].pc = "failed"
       /\ reqs'[r].error = reqs[r].f.error
       /\ cache' = cache /\ currentSizeBytes' = currentSizeBytes
  /\ (reqs[r].pc = "failed" /\ reqs'[r] # reqs[r]) =>
       /\ reqs'[r] = ReqIdle
       /\ cache' = cache /\ currentSizeBytes' = currentSizeBytes

\* C21: a request whose origin fetch fails ends with the error of fetchFile,
\* never with a buffer, and none of its steps from the failure on creates,
\* replaces or removes a cache entry.
C21_FailedFetchStoresNothing ==
  /\ [](\A r \in Reqs :
          /\ reqs[r].f.pc = "thrown" => reqs[r].pc = "fetching" /\ reqs[r].f.error # NoError
          /\ reqs[r].pc = "failed" => reqs[r].result = Null /\ reqs[r].error # NoError
          /\ reqs[r].pc = "done" => reqs[r].result # Null /\ reqs[r].error = NoError)
  /\ [][\A r \in Reqs : FailedFetchStep(r)]_vars

\* both requests missed the cache for the same path: the one has failed
\* after its retries with the upstream error and the path is not in the
\* cache, the other is still fetching
C21_Witness ==
  \E r \in Reqs, other \in Reqs :
    /\ r # other
    /\ reqs[r].pc = "failed"
    /\ reqs[r].error = GitHubAPIError(502)
    /\ reqs[other].pc = "fetching"
    /\ reqs[other].path = reqs[r].path
    /\ ~Has(cache, reqs[r].path)

(***************************************************************************)
(* Properties of fetchFile                                                 *)
(***************************************************************************)
\* the origin answered the attempt with a retryable failure
RetryableAnswer(a) == a.rejected = "no" /\ isRetryableError(a.status)
\* the origin answered the attempt with a failure status that is neither
\* not-found nor retryable
NonRetryableAnswer(a) ==
  a.rejected = "no" /\ ~IsOk(a.status) /\ a.status # 404 /\ ~isRetryableError(a.status)

\* C7: a 404 answer, at whatever attempt, ends fetchFile at once with
\* FileNotFoundError: it is the last attempt made and no sleep follows it.
C7_NotFoundImmediate ==
  \A i \in 1..Len(fetchLog) :
    fetchLog[i].status = 404 =>
      /\ i = Len(fetchLog)
      /\ fetch.pc = "thrown"
      /\ fetch.error = FileNotFoundError
      /\ fetch.attempts = i
      /\ Len(fetch.sleeps) = i - 1

\* a 404 answered a retry while attempts remained
C7_Witness ==
  /\ Len(fetchLog) = 2
  /\ fetchLog[2].status = 404
  /\ Len(fetchLog) <= client.maxRetries
  /\ fetch.pc = "thrown"

\* C8: while every attempt is answered with a retryable failure, fetchFile
\* never returns, the i-th sleep lasts retryDelay * 2^i, and after attempt
\* maxRetries it throws GitHubAPIError 502 having made maxRetries + 1
\* attempts and maxRetries sleeps.
C8_RetryableExhausts ==
  (\A i \in 1..Len(fetchLog) : RetryableAnswer(fetchLog[i])) =>
    /\ fetch.pc # "returned"
    /\ fetch.attempts <= client.maxRetries + 1
    /\ Len(fetch.sleeps) <= client.maxRetries
    /\ \A i \in 1..Len(fetch.sleeps) : fetch.sleeps[i] = client.retryDelay * 2^(i - 1)
    /\ fetch.pc = "thrown" <=> Len(fetchLog) = client.maxRetries + 1
    /\ fetch.pc = "thrown" =>
         /\ fetch.error = GitHubAPIError(502)
         /\ fetch.attempts = client.maxRetries + 1
         /\ Len(fetch.sleeps) = client.maxRetries

\* the default client has given up after four retryable failures
C8_Witness ==
  /\ client = githubClient
  /\ Len(fetchLog) = 4
  /\ \A i \in 1..Len(fetchLog) : RetryableAnswer(fetchLog[i])
  /\ \E i \in 1..Len(fetchLog) : fetchLog[i].status = 429
  /\ fetch.pc = "thrown"
  /\ fetch.sleeps = <<1000, 2000, 4000>>

\* C9: an attempt answered with a non-retryable failure status is the last
\* one: fetchFile throws GitHubAPIError 502 without a sleep or a further
\* attempt.
C9_NonRetryableNotRetried ==
  \A i \in 1..Len(fetchLog) :
    NonRetryableAnswer(fetchLog[i]) =>
      /\ i = Len(fetchLog)
      /\ fetch.pc = "thrown"
      /\ fetch.error = GitHubAPIError(502)
      /\ fetch.attempts = i
      /\ Len(fetch.sleeps) = i - 1

\* C10: whatever the origin answers, a failure of fetchFile is a
\* FileNotFoundError, a GitHubAPIError 502 or a GitHubAPIError 504.
C10_ClassifiedFailures ==
  fetch.pc = "thrown" =>
    fetch.error \in {FileNotFoundError, GitHubAPIError(502), GitHubAPIError(504)}

\* C11: an attempt that ends at its deadline (fetch rejects with AbortError)
\* ends fetchFile with GitHubAPIError 504 when it is attempt maxRetries, and
\* otherwise is followed by a sleep of retryDelay * 2^attempt and by the next
\* attempt.
C11_DeadlineExceeded ==
  \A i \in 1..Len(fetchLog) :
    fetchLog[i].rejected = "AbortError" =>
      IF i - 1 = client.maxRetries
      THEN /\ i = Len(fetchLog)
           /\ fetch.pc = "thrown"
           /\ fetch.error = GitHubAPIError(504)
           /\ fetch.attempts = i
           /\ Len(fetch.sleeps) = i - 1
      ELSE /\ Len(fetch.sleeps) >= i
           /\ fetch.sleeps[i] = client.retryDelay * 2^(i - 1)
           /\ IF i = Len(fetchLog)
              THEN \/ (fetch.pc = "sleep" /\ fetch.attempts = i /\ Len(fetch.sleeps) = i)
                   \/ (fetch.pc \in {"fetch", "buffer", "text"} /\ fetch.attempts = i + 1)
              ELSE fetch.attempts >= i + 1

\* the default client: the deadline passed at the second attempt, which was
\* retried, and again at the fourth and last, which ended the call
C11_Witness ==
  /\ client = githubClient
  /\ Len(fetchLog) = 4
  /\ fetchLog[2].rejected = "AbortError"
  /\ fetchLog[4].rejected = "AbortError"
  /\ fetchLog[3].status = 500
  /\ fetch.pc = "thrown"
  /\ fetch.sleeps = <<1000, 2000, 4000>>

\* what the client uses for an option: the value supplied, or the default if
\* none is supplied
Configured(option, dflt) == IF option = Undefined THEN dflt ELSE option

\* C24: a client uses the maxRetries, retryDelay and timeout it was
\* constructed with, 0 included, and the defaults 3, 1000 and 30000 only for
\* the options that were not supplied; fetchFile makes at most maxRetries + 1
\* attempts with the maxRetries supplied.
C24_ExplicitOptions ==
  /\ client.maxRetries = Configured(client.options.maxRetries, DefaultMaxRetries)
  /\ client.retryDelay = Configured(client.options.retryDelay, DefaultRetryDelay)
  /\ client.timeout = Configured(client.options.timeout, DefaultTimeout)
  /\ fetch.attempts <= Configured(client.options.maxRetries, DefaultMaxRetries) + 1

\* every attempt completes: the origin answers or the request fails, the
\* body is read or its read fails, and the sleeps end
FetchLiveSpec == FetchSpec /\ WF_vars(FetchNext)

\* fetchFile has returned or thrown
FetchEnded == fetch.pc \in {"returned", "thrown"}

\* C25: if every attempt completes, fetchFile ends; it makes at most
\* maxRetries + 1 attempts; the attempt that succeeds is the last, fetchFile
\* returns its payload without a sleep and does nothing after.
C25_Terminates ==
  /\ [](fetch.attempts <= client.maxRetries + 1 /\ Len(fetch.sleeps) <= client.maxRetries)
  /\ [](fetch.pc = "returned" =>
          /\ fetch.buffer # Null
          /\ Len(fetchLog) = fetch.attempts
          /\ IsOk(fetchLog[Len(fetchLog)].status)
          /\ fetchLog[Len(fetchLog)].rejected = "no"
          /\ Len(fetch.sleeps) = fetch.attempts - 1)
  /\ [][(fetch.pc = "buffer" /\ fetch'.pc = "returned") =>
          (fetch'.attempts = fetch.attempts /\ fetch'.sleeps = fetch.sleeps)]_vars
  /\ [][FetchEnded => fetch' = fetch]_vars
  /\ (fetch.pc # "idle" ~> FetchEnded)

\* the last attempt that the client allows has succeeded after the failures
\* of all the attempts before it
C25_Witness ==
  /\ client.maxRetries = MaxRetriesOption
  /\ fetch.pc = "returned"
  /\ fetch.attempts = client.maxRetries + 1
  /\ Len(fetch.sleeps) = client.maxRetries

(***************************************************************************)
(* The limiter on its own: calls of checkLimit by any client at any time,  *)
(* the callback of the cleanup interval at any point in between, and the   *)
(* clock advancing.                                                        *)
(***************************************************************************)
\* Date.now() of the limiter's runs stops here
LimiterMaxTime == windowMs + TickMs

\* the timestamps of the list that count at time t
CountValid(timestamps, t) == Len(ValidRequests(timestamps, t))

LimiterTick ==
  /\ now + TickMs <= LimiterMaxTime
  /\ now' = now + TickMs
  /\ lastCheck' = [NoCheck EXCEPT !.op = "tick"]
  /\ UNCHANGED <<requests, admitted, rejectedAt>>
  /\ UNCHANGED <<ttlSeconds, cache, currentSizeBytes, spinning, lastTouch, insertedAt, lastOp>>
  /\ UNCHANGED <<fetchVars, reqs, validation, timer, unswept, page, compress, http>>

CheckLimit(clientId) ==
  /\ LET r == checkLimit(requests, clientId, now)
     IN /\ requests' = r.requests
        /\ admitted' = IF r.ret THEN [admitted EXCEPT ![clientId] = Append(@, now)]
                                ELSE admitted
        /\ rejectedAt' = IF r.ret THEN rejectedAt ELSE [rejectedAt EXCEPT ![clientId] = now]
        /\ lastCheck' = [op |-> "check", clientId |-> clientId, ok |-> r.ret]
  /\ UNCHANGED <<cacheVars, fetchVars, reqs, validation, timer, unswept, page, compress, http>>

Sweep ==
  /\ requests' = Cleanup(requests, now)
  /\ lastCheck' = [NoCheck EXCEPT !.op = "sweep"]
  /\ UNCHANGED <<admitted, rejectedAt>>
  /\ UNCHANGED <<cacheVars, fetchVars, reqs, validation, timer, unswept, page, compress, http>>

LimiterNext ==
  \/ LimiterTick
  \/ \E clientId \in Clients : CheckLimit(clientId)
  \/ Sweep

LimiterSpec == Init /\ [][LimiterNext]_vars

(***************************************************************************)
(* Properties of the limiter                                               *)
(***************************************************************************)
\* the admitted calls of the list whose instants lie in [from, to)
AdmittedIn(instants, from, to) ==
  Cardinality({i \in 1..Len(instants) : from <= instants[i] /\ instants[i] < to})
\* the admitted calls of the list whose instants lie in (from, to]
AdmittedUpTo(instants, from, to) ==
  Cardinality({i \in 1..Len(instants) : from < instants[i] /\ instants[i] <= to})

\* C12: of the admitted calls of a client, at most maxRequests lie in any
\* half-open interval of length windowMs.  The intervals that begin or end
\* at the instant of an admitted call are the ones checked: an interval
\* [s, s + windowMs) holds the same admitted calls as the one that begins at
\* the first of them, an interval (s - windowMs, s] the same as the one that
\* ends at the last of them.
C12_WindowBound ==
  \A c \in Clients :
    \A i \in 1..Len(admitted[c]) :
      /\ AdmittedIn(admitted[c], admitted[c][i], admitted[c][i] + windowMs) <= maxRequests
      /\ AdmittedUpTo(admitted[c], admitted[c][i] - windowMs, admitted[c][i]) <= maxRequests

\* a client has made maxRequests + 1 calls within windowMs, the first at
\* time 0 and the last two at the same later instant: maxRequests of them
\* were admitted and the last was rejected; another client was admitted in
\* between
C12_Witness ==
  /\ lastCheck = [op |-> "check", clientId |-> "x", ok |-> FALSE]
  /\ now < windowMs
  /\ Len(admitted["x"]) = maxRequests
  /\ admitted["x"][1] = 0
  /\ admitted["x"][maxRequests] = now
  /\ admitted["y"] # <<>>

\* C13: a call of checkLimit made when fewer than maxRequests of the
\* client's admitted calls are younger than windowMs is admitted; a call that
\* is exactly windowMs old is not younger than windowMs.
C13_NeverBlocked ==
  [][lastCheck'.op = "check" =>
       LET c == lastCheck'.clientId
       IN AdmittedUpTo(admitted[c], now - windowMs, now) < maxRequests => lastCheck'.ok
    ]_vars

\* a client that had used its maxRequests calls, the oldest at time 0, and
\* was rejected afterwards, has been admitted again at time windowMs exactly
C13_Witness ==
  /\ lastCheck = [op |-> "check", clientId |-> "x", ok |-> TRUE]
  /\ Len(admitted["x"]) = maxRequests + 1
  /\ admitted["x"][1] = now - windowMs
  /\ admitted["x"][maxRequests] < now
  /\ admitted["x"][maxRequests + 1] = now
  /\ rejectedAt["x"] >= admitted["x"][maxRequests]
  /\ rejectedAt["x"] < now

\* C14: a rejected call of checkLimit leaves the Map of the limiter, that
\* is the timestamps of every client, unchanged.
C14_RejectedNotRecorded ==
  [][(lastCheck'.op = "check" /\ ~lastCheck'.ok) => requests' = requests]_vars

\* a client has been rejected at an instant later than its last admitted
\* call, within the window of its admitted calls, while the limiter tracks
\* another client too
C14_Witness ==
  /\ lastCheck = [op |-> "check", clientId |-> "x", ok |-> FALSE]
  /\ rejectedAt["x"] = now
  /\ now > 0
  /\ Len(admitted["x"]) = maxRequests
  /\ admitted["x"][maxRequests] < now
  /\ DOMAIN requests = Clients

(***************************************************************************)
(* The handler from the return of fetchFileWithCache on: one request at a  *)
(* time with any file, any headers and encoders that fail or deliver       *)
(* outputs of any length.                                                  *)
(***************************************************************************)
\* the files: too short to be compressed, and two that are long enough
FileLens == {MinCompressionSizeBytes - 1, MinCompressionSizeBytes, MinCompressionSizeBytes + 2}
Files == {Payload(n, b) : n \in FileLens, b \in Bytes}

\* the Accept-Encoding headers of the requests
AcceptEncodings ==
  {NoAcceptEncoding,
   AcceptEncoding(<<>>),
   AcceptEncoding(<<"g", "z", "i", "p">>),
   AcceptEncoding(<<"b", "r">>),
   AcceptEncoding(<<"d", "e", "f", "l", "a", "t", "e">>),
   AcceptEncoding(<<"g", "z", "i", "p", ",", " ", "d", "e", "f", "l", "a", "t", "e", ",", " ", "b", "r">>),
   AcceptEncoding(<<"G", "Z", "I", "P", ",", " ", "B", "R">>),
   AcceptEncoding(<<"i", "d", "e", "n", "t", "i", "t", "y">>),
   AcceptEncoding(<<"b", "r", ";", "q", "=", "0", ",", " ", "g", "z", "i", "p">>)}

\* the If-None-Match headers: absent, the ETag of a file
IfNoneMatches == {NoIfNoneMatch} \cup {Quoted(generateETag(file)) : file \in Files}

\* what an encoder may do with a buffer: fail, or deliver an output that is
\* shorter than the buffer, as long, or longer
EncoderOutcomes(buffer) ==
  {EncoderError} \cup
  {EncoderOutput(Payload(n, b)) :
     n \in {m \in {Len(buffer) - 1, Len(buffer), Len(buffer) + 1} : m >= 0},
     b \in CompressedBytes}

\* fetchFileWithCache returns the file of a request
Fetched(safePath, fileBuffer, requireDefined, ifNoneMatch, acceptEncoding) ==
  /\ compress.pc = "idle"
  /\ compress' = AfterFetch([HttpIdle EXCEPT !.safePath = safePath], fileBuffer,
                            requireDefined, ifNoneMatch, acceptEncoding)
  /\ UNCHANGED <<cacheVars, fetchVars, reqs, limiterVars, validation, timer, unswept, page, http>>

\* the encoder of the coding that compressContent awaits is done
Compressed(outcome) ==
  /\ compress.pc = "compressing"
  /\ outcome \in EncoderOutcomes(compress.fileBuffer)
  /\ compress.k.pc \notin {"returned", "thrown"}
  /\ compress' = [compress EXCEPT !.k = OnCompressed(@, Compress(@.pc, outcome))]
  /\ UNCHANGED <<cacheVars, fetchVars, reqs, limiterVars, validation, timer, unswept, page, http>>

\* compressContent is done and the handler sends the response
Send ==
  /\ compress.pc = "compressing"
  /\ compress.k.pc \in {"returned", "thrown"}
  /\ compress' = AfterCompress(compress)
  /\ UNCHANGED <<cacheVars, fetchVars, reqs, limiterVars, validation, timer, unswept, page, http>>

\* the request is over
Finish ==
  /\ compress.pc = "sent"
  /\ compress' = HttpIdle
  /\ UNCHANGED <<cacheVars, fetchVars, reqs, limiterVars, validation, timer, unswept, page, http>>

CompressNext ==
  \/ \E safePath \in RequestKeys, fileBuffer \in Files, requireDefined \in BOOLEAN,
        ifNoneMatch \in IfNoneMatches, acceptEncoding \in AcceptEncodings :
       Fetched(safePath, fileBuffer, requireDefined, ifNoneMatch, acceptEncoding)
  \/ \E outcome \in UNION {EncoderOutcomes(file) : file \in Files} : Compressed(outcome)
  \/ Send
  \/ Finish

CompressSpec == Init /\ [][CompressNext]_vars

(***************************************************************************)
(* Properties of the compression                                           *)
(***************************************************************************)
\* the coding was tried and qualifies: its encoder delivered an output
\* shorter than the original
Qualifies(k, t) == ~t.failed /\ t.length < Len(k.buffer)

\* C16: compressContent returns an encoding only together with a buffer
\* shorter than the original; when no coding it tried delivered a shorter
\* output it returns encoding null and buffer null, and the handler then
\* sends the file as it is without a Content-Encoding header.
C16_BeneficialOnly ==
  LET k == compress.k
  IN /\ k.pc = "returned" =>
          /\ k.result.encoding # "null" =>
                /\ k.result.encoding \in {Codings[i] : i \in 1..Len(Codings)}
                /\ k.result.buffer # Null
                /\ Len(k.result.buffer) < Len(k.buffer)
          /\ (\A j \in 1..Len(k.tried) : ~Qualifies(k, k.tried[j])) =>
                k.result = NoCompression
     /\ (compress.pc = "sent" /\ compress.status = 200) =>
          /\ compress.contentEncoding # NoHeader =>
                /\ compress.contentEncoding = k.result.encoding
                /\ compress.body = k.result.buffer
                /\ Len(compress.body) < Len(compress.fileBuffer)
          /\ (k.pc = "returned" /\ k.result.encoding = "null") =>
                /\ compress.body = compress.fileBuffer
                /\ compress.contentEncoding = NoHeader

\* the three encoders have delivered an output as long as the file, one
\* longer and a failure, and the file was sent as it is
C16_Witness ==
  /\ compress.pc = "sent" /\ compress.status = 200
  /\ Len(compress.k.tried) = 3
  /\ compress.k.tried[1].length = Len(compress.fileBuffer)
  /\ compress.k.tried[2].length > Len(compress.fileBuffer)
  /\ compress.k.tried[3].failed
  /\ compress.contentEncoding = NoHeader
  /\ compress.body = compress.fileBuffer

\* the codings a client accepts with each Accept-Encoding header of the
\* model (the header in lower case): the codings it lists with a quality
\* that is not 0
ClientAccepts(acceptEncodingLower) ==
  CASE acceptEncodingLower = <<"g", "z", "i", "p">> -> {"gzip"}
    [] acceptEncodingLower = <<"b", "r">> -> {"br"}
    [] acceptEncodingLower = <<"d", "e", "f", "l", "a", "t", "e">> -> {"deflate"}
    [] acceptEncodingLower = <<"g", "z", "i", "p", ",", " ", "d", "e", "f", "l", "a", "t", "e", ",", " ", "b", "r">> -> {"br", "gzip", "deflate"}
    [] acceptEncodingLower = <<"g", "z", "i", "p", ",", " ", "b", "r">> -> {"br", "gzip"}
    [] acceptEncodingLower = <<"b", "r", ";", "q", "=", "0", ",", " ", "g", "z", "i", "p">> -> {"gzip"}
    [] OTHER -> {}

\* C17: compressContent tries the codings in the order br, gzip, deflate,
\* only those the client accepts and every one of those up to the first
\* whose encoder succeeds with an output shorter than the original; it
\* returns that one and tries no coding after it.
C17_FirstBeneficial ==
  LET k == compress.k
      accepts == ClientAccepts(k.acceptEncodingLower)
      n == Len(k.tried)
  IN k.pc = "returned" =>
       /\ \A j \in 1..n : k.tried[j].coding \in accepts
       /\ \A i, j \in 1..n :
            i < j => CodingIndex(k.tried[i].coding) < CodingIndex(k.tried[j].coding)
       /\ \A j \in 1..(n - 1) : ~Qualifies(k, k.tried[j])
       /\ IF k.result.encoding # "null"
          THEN /\ n >= 1
               /\ k.tried[n].coding = k.result.encoding
               /\ Qualifies(k, k.tried[n])
               /\ Len(k.result.buffer) = k.tried[n].length
               /\ \A c \in accepts :
                    CodingIndex(c) < CodingIndex(k.result.encoding) =>
                      \E j \in 1..n : k.tried[j].coding = c
          ELSE /\ \A j \in 1..n : ~Qualifies(k, k.tried[j])
               /\ \A c \in accepts : \E j \in 1..n : k.tried[j].coding = c

\* the coding of the i-th position that the header includes and that comes
\* first after the position
NextIncluded(k, i) ==
  LET later == {j \in 1..Len(Codings) :
                  j > i /\ Includes(k.acceptEncodingLower, CodingName(Codings[j]))}
  IN IF later = {} THEN "none"
     ELSE Codings[CHOOSE j \in later : \A l \in later : j <= l]

\* C18: the failure of an encoder never leaves compressContent as an
\* exception: the next coding of the header is tried, and when none is
\* left compressContent returns without a buffer and the handler answers
\* 200 with the file as it is.
C18_CompressionFailureLocal ==
  LET k == compress.k
      n == Len(k.tried)
  IN /\ k.pc # "thrown"
     /\ \A j \in 1..n :
          k.tried[j].failed =>
            LET next == NextIncluded(k, CodingIndex(k.tried[j].coding))
            IN IF next = "none"
               THEN /\ j = n
                    /\ k.pc = "returned"
                    /\ k.result = NoCompression
                    /\ compress.pc = "sent" =>
                         /\ compress.status = 200
                         /\ compress.body = compress.fileBuffer
                         /\ compress.contentEncoding = NoHeader
               ELSE IF j = n THEN k.pc = next ELSE k.tried[j + 1].coding = next

\* the three encoders have failed one after the other and the file was sent
\* as it is with status 200
C18_Witness ==
  /\ compress.pc = "sent" /\ compress.status = 200
  /\ Len(compress.k.tried) = 3
  /\ \A j \in 1..3 : compress.k.tried[j].failed
  /\ compress.contentEncoding = NoHeader
  /\ compress.body = compress.fileBuffer

(***************************************************************************)
(* The requests of fetchFileWithCache with the server cache time of any    *)
(* configuration: config.serverCacheSeconds may be 0.                      *)
(***************************************************************************)
\* the values of config.serverCacheSeconds
ServerCacheSeconds == {0, TtlSeconds}

ConfiguredInit ==
  /\ CacheInit
  /\ ttlSeconds \in ServerCacheSeconds
  /\ client = githubClient
  /\ fetch = FetchIdle
  /\ fetchLog = <<>>
  /\ reqs = [r \in Reqs |-> ReqIdle]
  /\ LimiterInit
  /\ compress = HttpIdle
  /\ http = [r \in Reqs |-> HttpIdle]
  /\ page = NoPage
  /\ unswept = NoRequests
  /\ timer = NoTimer
  /\ validation = NoValidation

ConfiguredSpec == ConfiguredInit /\ [][Next]_vars

\* the step is the one in which request r enters fetchFileWithCache
IsRequestStep(r) == reqs[r].pc = "idle" /\ reqs'[r].pc # "idle"
\* the step is the one in which request r stores what fetchFile returned
IsStoreStep(r) ==
  reqs[r].pc = "fetching" /\ reqs[r].f.pc = "returned" /\ reqs'[r].pc = "done"

\* request r enters fetchFileWithCache: the payload of a stored, unexpired
\* entry is returned with no origin attempt, and the first origin attempt is
\* issued if there is no such entry
HitOrFetch(r) ==
  LET key == reqs'[r].path
  IN IF Has(cache, key) /\ now < Entry(cache, key).expiresAt
     THEN /\ reqs'[r].pc = "done"
          /\ reqs'[r].result = Entry(cache, key).data
          /\ reqs'[r].f = FetchIdle
     ELSE /\ reqs'[r].pc = "fetching"
          /\ reqs'[r].f.pc = "fetch"
          /\ reqs'[r].f.attempts = 1

\* request r stores a payload that fits the cache: the payload is returned
\* and is stored under the path of the request
StoredBeforeReturn(r) ==
  LET key == reqs[r].path
      buffer == reqs[r].f.buffer
  IN byteLength(buffer) <= maxSizeBytes =>
       /\ reqs'[r].result = buffer
       /\ Has(cache', key)
       /\ Entry(cache', key).data = buffer

\* a get of the path of request r at the instant of its store is a hit
HitRightAfter(r) ==
  LRUCache_get([cache |-> cache', currentSizeBytes |-> currentSizeBytes'],
               reqs[r].path, now').hit

\* C20: fetchFileWithCache returns the payload of a stored, unexpired entry
\* without any origin attempt and fetches from the origin on a miss only; a
\* fetched payload that fits the cache is stored under the normalized path
\* before it is returned, and a request for the path that follows at once is
\* a hit.
C20_FetchOnMissOnly ==
  [][\A r \in Reqs :
       /\ IsRequestStep(r) => HitOrFetch(r)
       /\ IsStoreStep(r) =>
            /\ StoredBeforeReturn(r)
            /\ byteLength(reqs[r].f.buffer) <= maxSizeBytes => HitRightAfter(r)
    ]_vars

\* C20, amended: as C20, and the request that follows at once is a hit when
\* the server cache time is not 0; with a server cache time of 0 the stored
\* entry is expired from the start and the request that follows is a miss.
C20_FetchOnMissOnlyWithinTtl ==
  [][\A r \in Reqs :
       /\ IsRequestStep(r) => HitOrFetch(r)
       /\ IsStoreStep(r) =>
            /\ StoredBeforeReturn(r)
            /\ byteLength(reqs[r].f.buffer) <= maxSizeBytes =>
                 (HitRightAfter(r) <=> ttlSeconds > 0)
    ]_vars

\* the two requests are done with the same path and the same payload, and
\* the entry of the path was read after the instant at which it was stored:
\* a request has been served from the cache
C20_Witness ==
  /\ \A r \in Reqs : reqs[r].pc = "done"
  /\ reqs[1].path = reqs[2].path
  /\ reqs[1].result = reqs[2].result
  /\ Has(cache, reqs[1].path)
  /\ LET entry == Entry(cache, reqs[1].path)
     IN /\ entry.data = reqs[1].result
        /\ entry.accessedAt > entry.expiresAt - ttlSeconds * MsPerSecond

(***************************************************************************)
(* The handler as a whole: concurrent requests of any client go through    *)
(* the method and path checks, the limiter, fetchFileWithCache, the ETag   *)
(* and the compression, on the shared limiter, cache and client, while the *)
(* cleanup interval of the limiter fires at any time.  The origin answers  *)
(* every attempt with the file or with 404.                                *)
(***************************************************************************)
Methods == {"GET", "POST"}
\* req.query.file: a script with or without a leading slash, a path that
\* leaves the repository, and no path
HandlerKeys == {"a"}
QueryFiles ==
  {slashes \o <<key>> : slashes \in {<<>>, <<"/">>}, key \in HandlerKeys} \cup {DotDot, NoFile}
\* the headers and the connection of the requests of one client: it is
\* identified by the first address of X-Forwarded-For, by X-Real-IP or by
\* the remote address
ClientHeaders ==
  {[forwarded |-> <<"x", "y">>, realIp |-> "y", remoteAddress |-> "y"],
   [forwarded |-> <<>>, realIp |-> "x", remoteAddress |-> "y"],
   [forwarded |-> <<>>, realIp |-> NoHeader, remoteAddress |-> "x"]}
\* the statuses the origin answers the requests of the handler with
OriginStatuses == {200, 404}
\* the file the origin delivers: it fits in the cache and is long enough
\* to be compressed
HandlerPayloads == {Payload(MaxSizeBytes - 1, b) : b \in Bytes}
HandlerAcceptEncodings == {NoAcceptEncoding, AcceptEncoding(<<"g", "z", "i", "p">>)}
HandlerIfNoneMatches ==
  {NoIfNoneMatch} \cup {Quoted(generateETag(file)) : file \in HandlerPayloads}

\* a request arrives and the handler runs to its first await or to its
\* response
Handle(r, method, file, headers) ==
  /\ ~spinning
  /\ reqs[r].pc = "idle" /\ http[r].pc = "idle"
  /\ LET e == handler(CacheObj, requests, method, file, headers, now)
     IN /\ cache' = e.cache
        /\ currentSizeBytes' = e.currentSizeBytes
        /\ requests' = e.requests
        /\ reqs' = [reqs EXCEPT ![r] = e.req]
        /\ http' = [http EXCEPT ![r] = e.h]
  /\ UNCHANGED <<ttlSeconds, spinning, now, lastTouch, insertedAt, lastOp>>
  /\ UNCHANGED <<fetchVars, admitted, rejectedAt, lastCheck, validation, timer, unswept, page, compress>>

\* fetchFileWithCache has returned the file to the handler
Continue(r, requireDefined, ifNoneMatch, acceptEncoding) ==
  /\ http[r].pc = "fetching" /\ reqs[r].pc = "done"
  /\ http' = [http EXCEPT ![r] = AfterFetch(@, reqs[r].result, requireDefined,
                                             ifNoneMatch, acceptEncoding)]
  /\ reqs' = [reqs EXCEPT ![r] = ReqIdle]
  /\ UNCHANGED <<cacheVars, fetchVars, limiterVars, validation, timer, unswept, page, compress>>

\* fetchFileWithCache has thrown: the catch block of the handler
Fail(r) ==
  /\ http[r].pc = "fetching" /\ reqs[r].pc = "failed"
  /\ http' = [http EXCEPT ![r] = sendError(@, reqs[r].error)]
  /\ reqs' = [reqs EXCEPT ![r] = ReqIdle]
  /\ UNCHANGED <<cacheVars, fetchVars, limiterVars, validation, timer, unswept, page, compress>>

\* the encoder that compressContent awaits for the request is done
EncoderDone(r, outcome) ==
  /\ http[r].pc = "compressing"
  /\ http[r].k.pc \notin {"returned", "thrown"}
  /\ outcome \in EncoderOutcomes(http[r].fileBuffer)
  /\ http' = [http EXCEPT ![r].k = OnCompressed(@, Compress(@.pc, outcome))]
  /\ UNCHANGED <<cacheVars, fetchVars, reqs, limiterVars, validation, timer, unswept, page, compress>>

\* compressContent is done for the request and the handler sends the response
SendCompressed(r) ==
  /\ http[r].pc = "compressing"
  /\ http[r].k.pc \in {"returned", "thrown"}
  /\ http' = [http EXCEPT ![r] = AfterCompress(@)]
  /\ UNCHANGED <<cacheVars, fetchVars, reqs, limiterVars, validation, timer, unswept, page, compress>>

\* the response is sent and the request is over
End(r) ==
  /\ http[r].pc = "sent"
  /\ http' = [http EXCEPT ![r] = HttpIdle]
  /\ UNCHANGED <<cacheVars, fetchVars, reqs, limiterVars, validation, timer, unswept, page, compress>>

HandlerNext ==
  \/ Tick
  \/ Sweep
  \/ \E r \in Reqs, method \in Methods, file \in QueryFiles, headers \in ClientHeaders :
       Handle(r, method, file, headers)
  \/ \E r \in Reqs, status \in OriginStatuses : OriginRespond(r, status)
  \/ \E r \in Reqs, data \in HandlerPayloads : OriginBuffer(r, data)
  \/ \E r \in Reqs : Store(r)
  \/ \E r \in Reqs : Propagate(r)
  \/ \E r \in Reqs, requireDefined \in BOOLEAN, ifNoneMatch \in HandlerIfNoneMatches,
        acceptEncoding \in HandlerAcceptEncodings :
       Continue(r, requireDefined, ifNoneMatch, acceptEncoding)
  \/ \E r \in Reqs : Fail(r)
  \/ \E r \in Reqs, outcome \in UNION {EncoderOutcomes(file) : file \in HandlerPayloads} :
       EncoderDone(r, outcome)
  \/ \E r \in Reqs : SendCompressed(r)
  \/ \E r \in Reqs : End(r)

HandlerSpec == Init /\ [][HandlerNext]_vars

(***************************************************************************)
(* Properties of the handler                                               *)
(***************************************************************************)
\* the step is the start of the handler of request r and it asks the
\* limiter for client c
AsksLimiter(r, c) ==
  /\ http[r].pc = "idle"
  /\ http'[r].ops # <<>>
  /\ http'[r].clientId = c
\* the step admits request r
Admits(r) == http[r].pc = "idle" /\ http'[r].pc = "fetching"

\* what a step does to the calls that count for client c at the instant of
\* the step: a handler that asks the limiter is admitted exactly if a slot
\* remains, an admission takes exactly one slot, a rejection leaves the
\* limiter as it is, and no other step that leaves the clock alone (the
\* sweep, the continuations of the handlers after their awaits) changes
\* the number of the calls that count
AdmissionStep(c) ==
  LET before == CountValid(ClientRequests(requests, c), now)
      after == CountValid(ClientRequests(requests', c), now')
  IN /\ \A r \in Reqs :
          AsksLimiter(r, c) =>
            /\ Admits(r) <=> before < maxRequests
            /\ Admits(r) => after = before + 1
            /\ ~Admits(r) => http'[r].status = 429 /\ requests' = requests
     /\ (now' = now /\ ~(\E r \in Reqs : AsksLimiter(r, c) /\ Admits(r))) => after = before

\* C15: check-then-append is atomic under every interleaving of the handlers
\* and of the sweep: a handler is admitted exactly if fewer than maxRequests
\* calls of its client count at that instant, its admission takes one slot
\* at once, and nothing else gives a slot back at the same instant; so the
\* calls that count never exceed maxRequests, and of two concurrent requests
\* of a client that has one slot left one is admitted and the other rejected.
C15_AtomicAdmission ==
  /\ [](\A c \in Clients : CountValid(ClientRequests(requests, c), now) <= maxRequests)
  /\ [][\A c \in Clients : AdmissionStep(c)]_vars

\* two requests of one client have called the limiter at the same instant
\* with one slot left: the one awaits the origin, the other is rejected, and
\* the list of the client is full with exactly one call of this instant
C15_Witness ==
  \E r1 \in Reqs, r2 \in Reqs :
    /\ r1 # r2
    /\ http[r1].clientId # NoKey
    /\ http[r1].clientId = http[r2].clientId
    /\ http[r1].startTime = now /\ http[r2].startTime = now
    /\ http[r1].pc = "fetching" /\ reqs[r1].pc = "fetching"
    /\ http[r2].pc = "sent" /\ http[r2].status = 429
    /\ LET timestamps == ClientRequests(requests, http[r1].clientId)
       IN /\ Len(timestamps) = maxRequests
          /\ timestamps[maxRequests] = now
          /\ timestamps[maxRequests - 1] < now

\* the services a request calls behind the limiter
GatedOps == {"cache.get", "fetchFile", "compressContent"}

\* the request has called the limiter first of all, if it has called
\* anything
LimiterFirst(r) ==
  LET ops == http[r].ops
  IN /\ \A i \in 1..Len(ops) :
          ops[i] \in GatedOps => \E j \in 1..(i - 1) : ops[j] = "checkLimit"
     /\ (reqs[r] # ReqIdle \/ http[r].k # CompressIdle) => ops # <<>>

\* a rejected request has called nothing but the limiter: it is not in
\* fetchFileWithCache, it holds no file and has called no encoder
RejectedIdle(r) ==
  http[r].status = 429 =>
    /\ http[r].ops = <<"checkLimit">>
    /\ reqs[r] = ReqIdle
    /\ http[r].fileBuffer = Null
    /\ http[r].k = CompressIdle
    /\ http[r].contentEncoding = NoHeader

\* the step that rejects a request leaves the cache and every fetch alone,
\* and a rejected request does nothing more until it is over
RejectionStep(r) ==
  /\ (http[r].pc = "idle" /\ http'[r].status = 429) =>
       /\ cache' = cache
       /\ currentSizeBytes' = currentSizeBytes
       /\ reqs' = reqs
  /\ http[r].status = 429 =>
       /\ http'[r] \in {http[r], HttpIdle}
       /\ reqs'[r] = reqs[r]

\* C19: the limiter gates all other work of a request: checkLimit precedes
\* every cache read, origin fetch and compression of the request, and a
\* request rejected with 429 reads and writes no cache entry, starts no
\* origin fetch and no compression.
C19_LimiterGates ==
  /\ [](\A r \in Reqs : LimiterFirst(r) /\ RejectedIdle(r))
  /\ [][\A r \in Reqs : RejectionStep(r)]_vars

\* a request is rejected for a path that the cache holds while the other
\* request, admitted before, is compressing the file
C19_Witness ==
  \E r \in Reqs, other \in Reqs :
    /\ r # other
    /\ http[r].pc = "sent" /\ http[r].status = 429
    /\ Has(cache, http[r].safePath)
    /\ http[other].pc = "compressing"
    /\ http[other].ops = <<"checkLimit", "cache.get", "compressContent">>

(***************************************************************************)
(* The handler with one request at a time, against an origin that answers  *)
(* each attempt in any way: with the file, with a failure status, with a   *)
(* deadline or a transport error.                                          *)
(***************************************************************************)
\* a request arrives while no other is being handled
HandleAlone(r, method, file, headers) ==
  /\ \A other \in Reqs : http[other].pc = "idle"
  /\ Handle(r, method, file, headers)

SerialNext ==
  \/ Tick
  \/ \E r \in Reqs, method \in Methods, file \in QueryFiles, headers \in ClientHeaders :
       HandleAlone(r, method, file, headers)
  \/ \E r \in Reqs, status \in HandlerStatuses : OriginRespond(r, status)
  \/ \E r \in Reqs, error \in {AbortError, FetchError} : OriginReject(r, error)
  \/ \E r \in Reqs, data \in HandlerPayloads : OriginBuffer(r, data)
  \/ \E r \in Reqs : OriginText(r)
  \/ \E r \in Reqs : OriginBodyFail(r)
  \/ \E r \in Reqs : BackoffDone(r)
  \/ \E r \in Reqs : Store(r)
  \/ \E r \in Reqs : Propagate(r)
  \/ \E r \in Reqs, requireDefined \in BOOLEAN, ifNoneMatch \in HandlerIfNoneMatches,
        acceptEncoding \in HandlerAcceptEncodings :
       Continue(r, requireDefined, ifNoneMatch, acceptEncoding)
  \/ \E r \in Reqs : Fail(r)
  \/ \E r \in Reqs, outcome \in UNION {EncoderOutcomes(file) : file \in HandlerPayloads} :
       EncoderDone(r, outcome)
  \/ \E r \in Reqs : SendCompressed(r)
  \/ \E r \in Reqs : End(r)

SerialSpec == Init /\ [][SerialNext]_vars

\* the status that the failure stands for
OutcomeOf(error) ==
  CASE error.name = "FileNotFoundError" -> {404}
    [] error.name = "GitHubAPIError" -> {502, 504}
    [] error.name = "RateLimitError" -> {429}
    [] error.name = "ValidationError" -> {400}
    [] OTHER -> {}

\* the error is one of the classified failures
Classified(error) ==
  error.name \in {"FileNotFoundError", "GitHubAPIError", "RateLimitError", "ValidationError"}

\* the response to a classified failure has the status of its class, which
\* is the statusCode of the error, and a throttled response names the limit
\* of the limiter
ClassifiedOutcome(h) ==
  Classified(h.caught) =>
    /\ h.pc = "sent"
    /\ h.status \in OutcomeOf(h.caught)
    /\ h.status = h.caught.statusCode
    /\ h.errorResponse.error.of = h.caught.name
    /\ h.status = 429 => h.errorResponse.error.limit = maxRequests

\* the error that reaches sendError is the one that was raised: the error of
\* fetchFileWithCache, the rejection of the limiter, and a ValidationError
\* for a path that validateFilePath refuses
CaughtStep(r) ==
  /\ (http[r].pc = "fetching" /\ reqs[r].pc = "failed" /\ http'[r] # http[r]) =>
       http'[r].caught = reqs[r].error
  /\ (http[r].pc = "idle" /\ http'[r].ops = <<"checkLimit">> /\ http'[r].pc = "sent") =>
       http'[r].caught.name = "RateLimitError"
  /\ (http[r].pc = "idle" /\ http'[r].ops = <<>> /\ http'[r].pc = "sent") =>
       \/ http'[r].status = 405
       \/ http'[r].caught.name = "ValidationError"

\* C22: every classified failure has its own outcome: FileNotFoundError
\* gives 404, GitHubAPIError 502 or 504 as it says, RateLimitError 429 with a
\* message that names the limit, ValidationError 400; none gives a success
\* or 500.
C22_FailureOutcomes ==
  /\ [](\A r \in Reqs : ClassifiedOutcome(http[r]))
  /\ [][\A r \in Reqs : CaughtStep(r)]_vars

\* a request has been answered with 504 after its last attempt ran into the
\* deadline, and it took the last slot of its client
C22_Witness ==
  \E r \in Reqs :
    /\ http[r].pc = "sent"
    /\ http[r].caught = GitHubAPIError(504)
    /\ http[r].status = 504
    /\ Len(ClientRequests(requests, http[r].clientId)) = maxRequests

(***************************************************************************)
(* validateFilePath on its own: one call with any path.                    *)
(***************************************************************************)
\* the longest path of any characters
MaxPathLen == 4
\* the longest path of names, dots and slashes
MaxTraversalLen == 7

\* the characters of the paths: a letter, the dot, the slash, the blank and
\* the null byte
PathChars == {"a", ".", "/", " ", Nul}
TraversalChars == {"a", ".", "/"}

\* the strings of at most n characters
StringsUpTo(chars, n) == UNION {[1..m -> chars] : m \in 0..n}

RawPaths == StringsUpTo(PathChars, MaxPathLen) \cup StringsUpTo(TraversalChars, MaxTraversalLen)

Validate(filePath) ==
  /\ validation.pc = "idle"
  /\ LET safe == validateFilePath(filePath)
     IN validation' = [pc |-> "done", filePath |-> filePath,
                       threw |-> safe.threw, safePath |-> safe.safePath]
  /\ UNCHANGED <<cacheVars, fetchVars, reqs, limiterVars, timer, unswept, page, compress, http>>

PathNext == \E filePath \in RawPaths : Validate(filePath)

PathSpec == Init /\ [][PathNext]_vars

RECURSIVE EscapesFrom(_, _)
\* walking the segments from a directory `depth` levels below the root
\* leads above the root
EscapesFrom(segments, depth) ==
  IF segments = <<>> THEN FALSE
  ELSE IF Head(segments) = <<>> \/ Head(segments) = <<".">>
  THEN EscapesFrom(Tail(segments), depth)
  ELSE IF Head(segments) = DotDot
  THEN depth = 0 \/ EscapesFrom(Tail(segments), depth - 1)
  ELSE EscapesFrom(Tail(segments), depth + 1)

\* the path, read from the root of the repository, leaves it
Escapes(path) == EscapesFrom(Split(path), 0)

\* the path has a segment ".."
HasTraversal(path) == \E i \in 1..Len(Split(path)) : Split(path)[i] = DotDot

\* C23: validateFilePath throws ValidationError or returns a path that is
\* not empty, has no leading slash and no segment ".."; it throws for every
\* path that leaves the root of the repository; the path that
\* fetchFileWithCache and fetchFile derive from what it returns, the key of
\* the cache and the path of the origin URL, has no segment ".." either.
C23_NoTraversal ==
  validation.pc = "done" =>
    /\ Escapes(Trim(validation.filePath)) => validation.threw
    /\ ~validation.threw =>
         /\ validation.safePath # <<>>
         /\ Head(validation.safePath) # "/"
         /\ ~HasTraversal(validation.safePath)
         /\ ~HasTraversal(StripLeadingSlashes(validation.safePath))

\* the path a/../.., which leaves the root after a name, is refused
C23_Witness ==
  /\ validation.pc = "done"
  /\ validation.filePath = <<"a", "/", ".", ".", "/", ".", ".">>
  /\ validation.threw

(***************************************************************************)
(* One call of fetchFile with its timeouts and the clock: each attempt     *)
(* sets a timeout that aborts the request when it fires and clears it as   *)
(* soon as fetch has resolved with the response; the origin may take any   *)
(* time for the response and for the body.                                 *)
(***************************************************************************)
\* the timeout option of the client, in ms
TimeoutOption == 500

\* the client: it retries once
DeadlineInit ==
  /\ CacheInit
  /\ ttlSeconds = TtlSeconds
  /\ client = GitHubClient([maxRetries |-> 1, retryDelay |-> Undefined,
                            timeout |-> TimeoutOption])
  /\ fetch = FetchIdle
  /\ fetchLog = <<>>
  /\ reqs = [r \in Reqs |-> ReqIdle]
  /\ LimiterInit
  /\ compress = HttpIdle
  /\ http = [r \in Reqs |-> HttpIdle]
  /\ page = NoPage
  /\ unswept = NoRequests
  /\ validation = NoValidation
  /\ timer = NoTimer

\* the timeout of the attempt is pending and its time has come
TimerDue == timer.pending /\ now - timer.setAt >= client.timeout

\* time passes, unless a timeout is due: it fires first
DeadlineTick ==
  /\ ~TimerDue
  /\ now + TickMs <= MaxTime
  /\ now' = now + TickMs
  /\ UNCHANGED <<ttlSeconds, cache, currentSizeBytes, spinning, lastTouch, insertedAt, lastOp>>
  /\ UNCHANGED <<fetchVars, reqs, limiterVars, validation, timer, unswept, page, compress, http>>

\* fetchFile is called: the first attempt sets its timeout and issues the
\* request
DeadlineFetchFile ==
  /\ fetch.pc = "idle"
  /\ fetch' = FetchIssue(fetch)
  /\ timer' = SetTimeout(now)
  /\ UNCHANGED <<client, fetchLog, cacheVars, reqs, limiterVars, validation, unswept, page, compress, http>>

\* the timeout fires: controller.abort() rejects the pending fetch
Abort ==
  /\ TimerDue
  /\ fetch.pc = "fetch"
  /\ fetch' = Catch(client, fetch, AbortError)
  /\ fetchLog' = Append(fetchLog, Answer(0, AbortError.name))
  /\ timer' = ClearTimeout(timer)
  /\ UNCHANGED <<client, cacheVars, reqs, limiterVars, validation, unswept, page, compress, http>>

\* fetch resolves with the response before the timeout fires:
\* clearTimeout(timeoutId), then the status is looked at
DeadlineRespond(status) ==
  /\ ~TimerDue
  /\ fetch.pc = "fetch"
  /\ fetch' = OnResponse(client, fetch, status)
  /\ fetchLog' = IF status = 404 THEN Append(fetchLog, Answer(status, "no")) ELSE fetchLog
  /\ timer' = ClearTimeout(timer)
  /\ UNCHANGED <<client, cacheVars, reqs, limiterVars, validation, unswept, page, compress, http>>

\* the body has arrived
DeadlineBufferDone(data) ==
  /\ fetch.pc = "buffer"
  /\ fetch' = OnBuffer(fetch, data)
  /\ fetchLog' = Append(fetchLog, Answer(fetch.status, "no"))
  /\ UNCHANGED <<client, cacheVars, reqs, limiterVars, validation, timer, unswept, page, compress, http>>

DeadlineTextDone ==
  /\ fetch.pc = "text"
  /\ fetch' = OnText(client, fetch)
  /\ fetchLog' = Append(fetchLog, Answer(fetch.status, "no"))
  /\ UNCHANGED <<client, cacheVars, reqs, limiterVars, validation, timer, unswept, page, compress, http>>

\* the sleep ends: the next attempt sets its timeout and issues the request
DeadlineSleepDone ==
  /\ fetch.pc = "sleep"
  /\ fetch' = OnSleepDone(fetch)
  /\ timer' = SetTimeout(now)
  /\ UNCHANGED <<client, fetchLog, cacheVars, reqs, limiterVars, validation, unswept, page, compress, http>>

DeadlineNext ==
  \/ DeadlineTick
  \/ DeadlineFetchFile
  \/ Abort
  \/ \E status \in Statuses : DeadlineRespond(status)
  \/ \E data \in OriginPayloads : DeadlineBufferDone(data)
  \/ DeadlineTextDone
  \/ DeadlineSleepDone

DeadlineSpec == DeadlineInit /\ [][DeadlineNext]_vars

\* the attempt has been issued and has not delivered its payload
AttemptPending == fetch.pc \in {"fetch", "buffer", "text"}

\* C26: no attempt stays pending beyond its deadline: while the response or
\* the body of an attempt is awaited, no more than the timeout has passed
\* since the attempt was issued.
C26_AbandonedAtDeadline ==
  AttemptPending => now - timer.setAt <= client.timeout

\* the error an attempt fails with, from what the origin answered to it
FailureOf(a) ==
  IF a.rejected = "AbortError" THEN GitHubAPIError(504)
  ELSE IF a.rejected = "FetchError" THEN FetchError
  ELSE IF a.status = 404 THEN FileNotFoundError
  ELSE GitHubAPIError(502)

\* the attempt failed with a 5xx, a 429, its deadline or a network error
ExhaustingAnswer(a) == a.rejected # "no" \/ isRetryableError(a.status)

\* every attempt allowed was made and failed
Exhausted ==
  /\ fetch.pc = "thrown"
  /\ Len(fetchLog) = client.maxRetries + 1
  /\ \A i \in 1..Len(fetchLog) : ExhaustingAnswer(fetchLog[i])

\* C27: when the attempts of fetchFile are exhausted, the error raised is
\* the failure of the final attempt.
C27_FinalAttemptError ==
  Exhausted => fetch.error = FailureOf(fetchLog[Len(fetchLog)])

\* the Map holds no key twice
OneEntryPerKey == \A i, j \in 1..Len(cache) : cache[i].key = cache[j].key => i = j

\* request r missed the cache for its path and has not stored yet, and the
\* cache has an entry for that path: get removes an expired entry and only
\* Store inserts one, so the entry was stored by the other request, whose
\* fetch of the same path was in flight while the fetch of r was
StoredMeanwhile(r) ==
  /\ reqs[r].pc = "fetching"
  /\ Has(cache, reqs[r].path)

\* the later of two concurrent fetches of a path stores its buffer: the
\* entry of the path is the one this request stored, and it is the only one
SecondStoreStep(r) ==
  (/\ StoredMeanwhile(r)
   /\ reqs[r].f.pc = "returned"
   /\ byteLength(reqs[r].f.buffer) <= maxSizeBytes
   /\ reqs'[r].pc = "done") =>
    /\ Has(cache', reqs[r].path)
    /\ Entry(cache', reqs[r].path).data = reqs[r].f.buffer
    /\ Entry(cache', reqs[r].path).expiresAt = now + ttlSeconds * MsPerSecond
    /\ Cardinality({i \in 1..Len(cache') : cache'[i].key = reqs[r].path}) = 1
    /\ currentSizeBytes' = SumSizes(cache')

\* C28: concurrent misses on one path each fetch from the origin and each
\* store; whatever the interleaving, the cache holds at most one entry for a
\* key, stays within its size and count bounds, and its tracked size is the
\* sum of the sizes of its entries; the later store replaces the entry of the
\* earlier one.
C28_StampedeKeepsBounds ==
  /\ [](/\ OneEntryPerKey
        /\ SumSizes(cache) <= maxSizeBytes
        /\ Len(cache) <= maxEntries
        /\ currentSizeBytes = SumSizes(cache))
  /\ [][\A r \in Reqs : SecondStoreStep(r)]_vars

\* two fetches of the same path were in flight at the same time: the first
\* request has stored its buffer and the second, which missed the cache
\* before that, has its buffer and stores it next
C28_Witness ==
  /\ reqs[1].pc = "done" /\ reqs[1].path = reqs[2].path
  /\ StoredMeanwhile(2)
  /\ reqs[2].f.pc = "returned"
  /\ byteLength(reqs[2].f.buffer) <= maxSizeBytes
  /\ Entry(cache, reqs[2].path).data = reqs[1].result

\* the instant of the last admitted call of the client
LastAdmitted(c) == admitted[c][Len(admitted[c])]

\* what a sweep leaves: every client it keeps has a timestamp, all the
\* timestamps it keeps are younger than windowMs, the timestamps younger than
\* windowMs are all kept, and a client whose last admitted call is windowMs
\* old or older is not tracked any more
SweepStep ==
  lastCheck'.op = "sweep" =>
    /\ \A c \in DOMAIN requests' :
         /\ requests'[c] # <<>>
         /\ \A i \in 1..Len(requests'[c]) : now - requests'[c][i] < windowMs
         /\ c \in DOMAIN requests
         /\ requests'[c] = ValidRequests(requests[c], now)
    /\ \A c \in DOMAIN requests :
         CountValid(requests[c], now) > 0 => c \in DOMAIN requests'
    /\ \A c \in Clients :
         (admitted[c] # <<>> /\ now - LastAdmitted(c) >= windowMs) =>
           c \notin DOMAIN requests'

\* C29: after a sweep every tracked client has a timestamp younger than
\* windowMs and no stored timestamp is windowMs old or older; a sweep that
\* runs windowMs or more after the last admitted call of a client removes
\* the client from the Map.
C29_SweepPrunes == [][SweepStep]_vars

\* a sweep has run exactly windowMs after the last admitted call of a client
\* that the limiter tracked: the client is gone, and another client, admitted
\* later, is still tracked
C29_Witness ==
  /\ lastCheck.op = "sweep"
  /\ admitted["x"] # <<>>
  /\ now - LastAdmitted("x") = windowMs
  /\ "x" \notin DOMAIN requests
  /\ "y" \in DOMAIN requests
  /\ Len(admitted["y"]) > Len(requests["y"])

\* what a hit changes: the access time of the entry and its place in the
\* Map, where it becomes the most recently used; the entry keeps its key, its
\* data, its size and its expiresAt, the other entries stay as they are and
\* in their order, and the tracked size and the count stay
HitStep ==
  (lastOp'.op = "get" /\ lastOp'.ok) =>
    LET key == lastOp'.key
    IN /\ Has(cache, key) /\ Has(cache', key)
       /\ Entry(cache', key) = [Entry(cache, key) EXCEPT !.accessedAt = now]
       /\ Entry(cache', key).expiresAt = insertedAt[key] + ttlSeconds * MsPerSecond
       /\ cache'[Len(cache')].key = key
       /\ MapDelete(cache', key) = MapDelete(cache, key)
       /\ Len(cache') = Len(cache)
       /\ currentSizeBytes' = currentSizeBytes

\* a get of an entry that has been read since its insertion, at the
\* insertion time plus the TTL or later, finds it expired and removes it
ReadEntryExpiresStep ==
  (/\ lastOp'.op = "get"
   /\ Has(cache, lastOp'.key)
   /\ Entry(cache, lastOp'.key).accessedAt > insertedAt[lastOp'.key]
   /\ now >= insertedAt[lastOp'.key] + ttlSeconds * MsPerSecond) =>
    /\ ~lastOp'.ok
    /\ lastOp'.data = Null
    /\ ~Has(cache', lastOp'.key)

\* C30: a hit does not extend the lifetime of an entry: get on a live entry
\* changes its access time and its recency position only, every entry
\* expires at its insertion time plus the TTL however often it is read, and
\* at that instant a get finds it absent.
C30_HitKeepsLifetime ==
  /\ [](\A i \in 1..Len(cache) :
          cache[i].expiresAt = insertedAt[cache[i].key] + ttlSeconds * MsPerSecond)
  /\ [][HitStep /\ ReadEntryExpiresStep]_vars

\* an entry has been hit later than it was inserted, while another entry,
\* touched after its insertion, was more recent than it: the entry is now
\* the most recent one and still expires at its insertion time plus the TTL
C30_Witness ==
  /\ lastOp.op = "get" /\ lastOp.ok
  /\ Len(cache) = 2
  /\ now > insertedAt[lastOp.key]
  /\ Entry(cache, lastOp.key).accessedAt = now
  /\ Entry(cache, lastOp.key).expiresAt = insertedAt[lastOp.key] + ttlSeconds * MsPerSecond
  /\ insertedAt[cache[1].key] > insertedAt[lastOp.key]

\* the entries c with its k least recently used entries evicted
AfterEvictions(c, k) == SubSeq(c, k + 1, Len(c))

\* an item of this size can be added to the entries c
Fits(c, size) == SumSizes(c) + size <= maxSizeBytes /\ Len(c) < maxEntries

\* what an accepted set evicts: the least recently used entries of the Map
\* without the old entry of the key, oldest first, each of them while the
\* new item does not fit yet, and none once it fits
EvictionStep ==
  (lastOp'.op = "set" /\ lastOp'.ok) =>
    LET size == byteLength(lastOp'.data)
        ev == lastOp'.evicted
        base == MapDelete(cache, lastOp'.key)
    IN /\ Len(ev) <= Len(base)
       /\ \A k \in 1..Len(ev) : ev[k] = base[k]
       /\ \A k \in 0..(Len(ev) - 1) : ~Fits(AfterEvictions(base, k), size)
       /\ Fits(AfterEvictions(base, Len(ev)), size)
       /\ MapDelete(cache', lastOp'.key) = AfterEvictions(base, Len(ev))

\* C31: set evicts no more than necessary: least recently used entries, one
\* at a time, until the new item fits in bytes and in count; nothing when it
\* fits already, several entries when one eviction does not free enough.
C31_MinimalEviction == [][EvictionStep]_vars

\* a set of an item as large as the whole cache has evicted two entries: the
\* first eviction made room in count and not in bytes
C31_Witness ==
  /\ lastOp.op = "set" /\ lastOp.ok
  /\ Len(lastOp.evicted) = 2
  /\ byteLength(lastOp.data) = maxSizeBytes
  /\ lastOp.evicted[2].size > 0
  /\ 1 < maxEntries

\* what an accepted set does to a key that is stored already: the old size
\* leaves the tracked total before room is made, one entry is left for the
\* key, with the new payload and its size, as the most recently used entry
\* and with a lifetime that starts now; if the other entries and the new
\* payload fit in bytes, no other entry is evicted, full by count or not
ReplaceStep ==
  (lastOp'.op = "set" /\ lastOp'.ok /\ Has(cache, lastOp'.key)) =>
    LET key == lastOp'.key
        data == lastOp'.data
        old == Entry(cache, key)
        others == MapDelete(cache, key)
    IN /\ lastOp'.replaced
       /\ Cardinality({i \in 1..Len(cache') : cache'[i].key = key}) = 1
       /\ cache'[Len(cache')] =
            [key |-> key, data |-> data, size |-> byteLength(data),
             expiresAt |-> now + ttlSeconds * MsPerSecond, accessedAt |-> now]
       /\ insertedAt'[key] = now
       /\ currentSizeBytes' =
            currentSizeBytes - old.size - SumSizes(lastOp'.evicted) + byteLength(data)
       /\ currentSizeBytes' = SumSizes(cache')
       /\ SumSizes(others) + byteLength(data) <= maxSizeBytes =>
            /\ lastOp'.evicted = <<>>
            /\ MapDelete(cache', key) = others

\* C32: a set on a stored key replaces its entry: the old size is subtracted
\* before room is made, one entry with the new payload and size is left, it
\* is the most recently used, its lifetime restarts, and in a cache full by
\* count no other entry is evicted if the new size fits.
C32_Replace == [][ReplaceStep]_vars

\* in a cache full by count a stored key has been set again, after time has
\* passed, with a payload of several bytes: nothing was evicted, the count
\* is still the maximum and the cache is full to the byte
C32_Witness ==
  /\ lastOp.op = "set" /\ lastOp.replaced
  /\ lastOp.evicted = <<>>
  /\ Len(cache) = maxEntries
  /\ SumSizes(cache) = maxSizeBytes
  /\ byteLength(lastOp.data) > 1
  /\ now > 0

\* the entries of c that have not expired at time t, in their order
Unexpired(c, t) == SelectSeq(c, LAMBDA e : t < e.expiresAt)

\* what clearExpired does: the entries with now >= expiresAt are gone, read
\* since their insertion or not, the others are left as they are and in
\* their order, the number of the removed entries is returned and their
\* sizes have left the tracked size
ClearExpiredStep ==
  lastOp'.op = "clearExpired" =>
    /\ cache' = Unexpired(cache, now)
    /\ \A i \in 1..Len(cache) :
         now >= cache[i].expiresAt => ~Has(cache', cache[i].key)
    /\ lastOp'.n = Len(cache) - Len(cache')
    /\ currentSizeBytes' = currentSizeBytes - (SumSizes(cache) - SumSizes(cache'))

\* C33: clearExpired removes exactly the entries with now >= expiresAt,
\* returns their number, subtracts their sizes from the tracked size and
\* leaves the unexpired entries and their order unchanged; an expired entry
\* that was never read is removed too.
C33_ClearExpired == [][ClearExpiredStep]_vars

\* clearExpired has removed one entry at the earliest instant at which an
\* entry expires, the TTL after time 0, and has kept another entry, which
\* was stored later and has not been read since
C33_Witness ==
  /\ lastOp.op = "clearExpired" /\ lastOp.n = 1
  /\ now = ttlSeconds * MsPerSecond
  /\ Len(cache) = 1
  /\ cache[1].expiresAt > now
  /\ cache[1].accessedAt = cache[1].expiresAt - ttlSeconds * MsPerSecond

\* a set of a payload that is not too large returns: its loop ends, after
\* at most one eviction for each entry that was stored, and the payload is
\* stored
SetReturnsStep ==
  (lastOp'.op = "set" /\ byteLength(lastOp'.data) <= maxSizeBytes) =>
    /\ ~spinning'
    /\ lastOp'.ok
    /\ Len(lastOp'.evicted) <= Len(cache)
    /\ Has(cache', lastOp'.key)

\* C34: the eviction loop of set ends: with maxEntries >= 1, in every
\* reachable state of the cache and for every payload of at most
\* maxSizeBytes, set returns after no more evictions than there are entries;
\* the loop never runs on an empty Map.
C34_EvictionTerminates ==
  /\ [](maxEntries >= 1 => ~spinning)
  /\ [][maxEntries >= 1 => SetReturnsStep]_vars

\* a set has evicted every entry of a cache that was full by count, and has
\* returned: the Map was empty when the loop ended
C34_Witness ==
  /\ lastOp.op = "set" /\ lastOp.ok /\ ~lastOp.replaced
  /\ ~spinning
  /\ Len(lastOp.evicted) = maxEntries
  /\ Len(cache) = 1

(***************************************************************************)
(* Two limiters side by side: both get the same calls of checkLimit at the *)
(* same instants; the cleanup interval of the first fires at arbitrary     *)
(* points, that of the second never does (stopCleanup).                    *)
(***************************************************************************)
TwinTick ==
  /\ now + TickMs <= LimiterMaxTime
  /\ now' = now + TickMs
  /\ lastCheck' = [NoCheck EXCEPT !.op = "tick"]
  /\ UNCHANGED <<requests, unswept, admitted, rejectedAt>>
  /\ UNCHANGED <<ttlSeconds, cache, currentSizeBytes, spinning, lastTouch, insertedAt, lastOp>>
  /\ UNCHANGED <<fetchVars, reqs, validation, timer, page, compress, http>>

\* the call on both limiters; the bookkeeping is that of the first
TwinCheckLimit(clientId) ==
  /\ LET r == checkLimit(requests, clientId, now)
         u == checkLimit(unswept, clientId, now)
     IN /\ requests' = r.requests
        /\ unswept' = u.requests
        /\ admitted' = IF r.ret THEN [admitted EXCEPT ![clientId] = Append(@, now)]
                                ELSE admitted
        /\ rejectedAt' = IF r.ret THEN rejectedAt ELSE [rejectedAt EXCEPT ![clientId] = now]
        /\ lastCheck' = [op |-> "check", clientId |-> clientId, ok |-> r.ret]
  /\ UNCHANGED <<cacheVars, fetchVars, reqs, validation, timer, page, compress, http>>

\* the cleanup interval of the first limiter fires
TwinSweep ==
  /\ requests' = Cleanup(requests, now)
  /\ lastCheck' = [NoCheck EXCEPT !.op = "sweep"]
  /\ UNCHANGED <<unswept, admitted, rejectedAt>>
  /\ UNCHANGED <<cacheVars, fetchVars, reqs, validation, timer, page, compress, http>>

TwinNext ==
  \/ TwinTick
  \/ \E clientId \in Clients : TwinCheckLimit(clientId)
  \/ TwinSweep

TwinSpec == Init /\ [][TwinNext]_vars

\* the call that has just been made on the swept limiter got the outcome
\* that the same call gets on the limiter that is never swept
SameOutcomeStep ==
  lastCheck'.op = "check" =>
    lastCheck'.ok = checkLimit(unswept, lastCheck'.clientId, now).ret

\* C35: the sweep does not show in the admission decisions: after the same
\* calls of checkLimit at non-decreasing times, a call is admitted by a
\* limiter that is swept at arbitrary points exactly if it is admitted by a
\* limiter that is never swept; the timestamps the two hold that are younger
\* than windowMs are the same.
C35_SweepTransparent ==
  /\ [](\A c \in Clients :
          ValidRequests(ClientRequests(requests, c), now) =
            ValidRequests(ClientRequests(unswept, c), now))
  /\ [][SameOutcomeStep]_vars

\* sweeps have pruned the list of a client and removed another client, both
\* of which the limiter that is never swept still holds as they were, and
\* the first client, its window full again, has just been rejected
C35_Witness ==
  /\ lastCheck = [op |-> "check", clientId |-> "x", ok |-> FALSE]
  /\ "y" \in DOMAIN unswept /\ "y" \notin DOMAIN requests
  /\ Len(admitted["x"]) > maxRequests
  /\ Len(requests["x"]) = maxRequests

\* a call of checkLimit by a client is decided by the instants of the
\* earlier admitted calls of that client alone, and it leaves the
\* timestamps of every other client, tracked or not, as they are
IsolationStep ==
  lastCheck'.op = "check" =>
    LET a == lastCheck'.clientId
    IN /\ lastCheck'.ok <=> CountValid(admitted[a], now) < maxRequests
       /\ \A b \in Clients \ {a} :
            /\ b \in DOMAIN requests' <=> b \in DOMAIN requests
            /\ ClientRequests(requests', b) = ClientRequests(requests, b)
            /\ admitted'[b] = admitted[b]

\* C36: the clients are isolated in the limiter: a call of checkLimit by a
\* client is admitted or rejected on the instants of that client's own
\* admitted calls, and the calls of another client, admitted or rejected,
\* change neither that outcome nor the client's stored timestamps.
C36_ClientIsolation == [][IsolationStep]_vars

\* a client has been admitted at the very instant at which another client,
\* its window full, was rejected: the list of the other client is as it was
C36_Witness ==
  /\ lastCheck = [op |-> "check", clientId |-> "y", ok |-> TRUE]
  /\ rejectedAt["x"] = now
  /\ "x" \in DOMAIN requests
  /\ Len(requests["x"]) = maxRequests
  /\ requests["y"] = <<now>>
  /\ now > 0

\* the handler of request r runs in this step, up to its first await or to
\* its response
Handles(r) == http[r].pc = "idle" /\ http'[r].pc # "idle"

\* the request was refused for its method (405) or for its path (400, the
\* status of ValidationError alone)
RefusedEarly(h) == h.pc = "sent" /\ h.status \in {400, 405}

\* the request was neither refused for its method or path nor rejected by
\* the limiter
Admitted(h) == h.pc # "idle" /\ h.status \notin {400, 405, 429}

\* what a step does to the Map of the limiter: a request refused for its
\* method or its path leaves it as it is; an admitted request adds the
\* present instant, once, to the timestamps of its client that are younger
\* than windowMs, and leaves the other clients alone; the steps that follow
\* in the request, whatever its outcome, leave the Map as it is
QuotaStep ==
  /\ \A r \in Reqs :
       /\ (Handles(r) /\ RefusedEarly(http'[r])) => requests' = requests
       /\ (Handles(r) /\ Admitted(http'[r])) =>
            LET c == http'[r].clientId
                before == ValidRequests(ClientRequests(requests, c), now)
            IN /\ requests'[c] = Append(before, now)
               /\ CountValid(requests'[c], now) = Len(before) + 1
               /\ \A b \in DOMAIN requests' \ {c} :
                    b \in DOMAIN requests /\ requests'[b] = requests[b]
               /\ DOMAIN requests \subseteq DOMAIN requests'
  /\ (\A r \in Reqs : ~Handles(r)) => requests' = requests

\* the timestamp of an admitted request is the last one of its client until
\* the request is over, whatever the response
QuotaKept(h) ==
  Admitted(h) =>
    /\ h.clientId \in DOMAIN requests
    /\ requests[h.clientId][Len(requests[h.clientId])] = h.startTime

\* C37: the quota is taken by the admitted requests and by nothing else: a
\* request refused for its method or its path leaves the limiter as it is,
\* an admitted request adds one timestamp to the window of its client, and
\* that timestamp stays when the request ends in not-found, in a failure of
\* the origin or in 304.
C37_QuotaByAdmission ==
  /\ [](\A r \in Reqs : QuotaKept(http[r]))
  /\ [][QuotaStep]_vars

\* a request was admitted after one that the limiter had admitted before,
\* and has been answered 502 for a failure of the origin: its timestamp is
\* the second of its client
C37_Witness ==
  \E r \in Reqs :
    /\ http[r].pc = "sent" /\ http[r].status = 502
    /\ Admitted(http[r])
    /\ Len(requests[http[r].clientId]) = 2
    /\ requests[http[r].clientId][2] = http[r].startTime
    /\ now > http[r].startTime

\* request r returns a payload larger than the cache: the caller gets it,
\* and the Map and the tracked size stay as they are
OversizeReturned(r) ==
  byteLength(reqs[r].f.buffer) > maxSizeBytes =>
    /\ reqs'[r].pc = "done"
    /\ reqs'[r].result = reqs[r].f.buffer
    /\ cache' = cache
    /\ currentSizeBytes' = currentSizeBytes
    /\ ~spinning'

\* a request served from the cache gets a payload that fits the cache: a
\* payload larger than the cache always comes from the origin
ServedFromCacheFits(r) ==
  reqs'[r].pc = "done" => byteLength(reqs'[r].result) <= maxSizeBytes

\* C38: a payload of the origin that is larger than maxSizeBytes is
\* returned to the caller and is not stored, the cache is left as it is, and
\* every request for the path that follows is a miss that fetches from the
\* origin again.
C38_OversizeAlwaysMiss ==
  [][\A r \in Reqs :
       /\ IsRequestStep(r) => ServedFromCacheFits(r)
       /\ IsStoreStep(r) =>
            /\ OversizeReturned(r)
            /\ byteLength(reqs[r].f.buffer) > maxSizeBytes => ~HitRightAfter(r)
    ]_vars

\* C38, amended: as C38, and the request that follows is a miss when the
\* cache has no unexpired entry for the path; an entry that a concurrent
\* request for the path has stored meanwhile stays and is served.
C38_OversizeNotCached ==
  [][\A r \in Reqs :
       /\ IsRequestStep(r) => ServedFromCacheFits(r)
       /\ IsStoreStep(r) =>
            /\ OversizeReturned(r)
            /\ byteLength(reqs[r].f.buffer) > maxSizeBytes =>
                 (HitRightAfter(r) <=>
                    LRUCache_get(CacheObj, reqs[r].path, now).hit)
    ]_vars

\* a request has returned a payload larger than the cache, the cache holds
\* the entry of another path and none for the path of the request, and the
\* other request, for the same path, is at the origin
C38_Witness ==
  /\ reqs[1].pc = "done"
  /\ byteLength(reqs[1].result) > maxSizeBytes
  /\ Len(cache) = 1
  /\ ~Has(cache, reqs[1].path)
  /\ reqs[2].pc = "fetching" /\ reqs[2].path = reqs[1].path
  /\ reqs[2].f.pc = "fetch"

(***************************************************************************)
(* The analytics script in one page: the user is active, the page calls    *)
(* trackEvent, the history API and the opt-out functions, the browser      *)
(* fires popstate, visibilitychange and the pending timeouts, time passes. *)
(***************************************************************************)
\* the pending timeouts the page is let to pile up
MaxTimers == 2

\* the run lasts long enough for a session to time out and then to go on
PageMaxTime == TIMEOUT + 4 * TickMs

\* what the script's steps leave alone
PageRest ==
  <<ttlSeconds, cache, currentSizeBytes, spinning, lastTouch, insertedAt, lastOp, fetchVars,
    reqs, limiterVars, validation, timer, unswept, compress, http>>

\* the page at the start of a step of the script
Page(op) == [page EXCEPT !.last = Did(op)]

\* the script has run in a window whose storages hold what an earlier run
\* of it left there: an opt-out flag only without a uid
AnalyticsInit ==
  /\ CacheInit
  /\ ttlSeconds = TtlSeconds
  /\ client = githubClient
  /\ fetch = FetchIdle
  /\ fetchLog = <<>>
  /\ reqs = [r \in Reqs |-> ReqIdle]
  /\ LimiterInit
  /\ compress = HttpIdle
  /\ http = [r \in Reqs |-> HttpIdle]
  /\ unswept = NoRequests
  /\ timer = NoTimer
  /\ validation = NoValidation
  /\ \E optOut \in BOOLEAN, sidKey \in Ids \cup {NoId}, uidKey \in Ids \cup {NoId},
        href \in Urls, id \in Ids, uid \in Ids :
       /\ optOut => uidKey = NoId
       /\ page = LoadScript(optOut, sidKey, uidKey, href, id, uid, 0)

PageTick ==
  /\ now + TickMs <= PageMaxTime
  /\ now' = now + TickMs
  /\ page' = Page("tick")
  /\ UNCHANGED PageRest

\* mousedown, keydown, touchstart, scroll
Activity ==
  /\ \E id \in Ids : page' = refresh(Seen(Page("activity"), now), id, now)
  /\ UNCHANGED <<now, PageRest>>

TrackEvent ==
  /\ \E id \in Ids, uid \in Ids : page' = trackEvent(Page("trackEvent"), id, uid, now)
  /\ UNCHANGED <<now, PageRest>>

\* history.pushState: the location changes, the test is deferred
PushState(href) ==
  /\ page.timers < MaxTimers
  /\ page' = [Page("pushState") EXCEPT !.href = href, !.timers = @ + 1]
  /\ UNCHANGED <<now, PageRest>>

\* history.replaceState
ReplaceState(href) ==
  /\ page.timers < MaxTimers
  /\ page' = [Page("replaceState") EXCEPT !.href = href, !.timers = @ + 1]
  /\ UNCHANGED <<now, PageRest>>

\* a deferred test runs
TimerFire ==
  /\ page.timers > 0
  /\ \E id \in Ids, uid \in Ids :
       page' = IfNavigated([Page("timer") EXCEPT !.timers = @ - 1], id, uid, now)
  /\ UNCHANGED <<now, PageRest>>

\* the user goes back or forward
PopState(href) ==
  /\ \E id \in Ids, uid \in Ids :
       page' = handlePopState([Page("popstate") EXCEPT !.href = href], id, uid, now)
  /\ UNCHANGED <<now, PageRest>>

VisibilityChange(visible) ==
  /\ \E id \in Ids, uid \in Ids :
       page' = handleVisibilityChange(Page("visibilitychange"), visible, id, uid, now)
  /\ UNCHANGED <<now, PageRest>>

OptOut ==
  /\ page' = optOutAnalytics(Page("optOut"))
  /\ UNCHANGED <<now, PageRest>>

OptIn ==
  /\ \E id \in Ids : page' = optInAnalytics(Page("optIn"), id)
  /\ UNCHANGED <<now, PageRest>>

AnalyticsNext ==
  \/ PageTick
  \/ Activity
  \/ TrackEvent
  \/ \E href \in Urls : PushState(href)
  \/ \E href \in Urls : ReplaceState(href)
  \/ TimerFire
  \/ \E href \in Urls : PopState(href)
  \/ \E visible \in BOOLEAN : VisibilityChange(visible)
  \/ OptOut
  \/ OptIn

AnalyticsSpec == AnalyticsInit /\ [][AnalyticsNext]_vars

\* C39: while the user is opted out the script has no session id, and a
\* step that starts and ends opted out (user activity, a navigation event, a
\* deferred pageview test, a trackEvent call, the passing of time) sends no
\* payload
C39_OptedOutSilent ==
  /\ [](page.optOut => page.sid = NoId)
  /\ [][page.optOut /\ page'.optOut => page'.last.sent = NoPayload /\ page'.sid = NoId]_vars

\* a deferred test found a new location and called pageview while the user
\* was opted out, long after the last activity
C39_Witness ==
  /\ page.optOut
  /\ page.last.op = "timer"
  /\ page.last.tracked
  /\ page.last.sent = NoPayload
  /\ now - page.lastActivity > TIMEOUT

\* what C40 says of one step between two states in which the user is not
\* opted out
SessionStep ==
  LET gap == now - page.lastSeen
      did == page'.last
  IN /\ page'.sid # NoId
     /\ did.sent # NoPayload => did.instant /\ did.sent.sessionId = page'.sid
     /\ ~did.instant => page'.sid = page.sid
     /\ did.instant /\ gap <= TIMEOUT => page'.sid = page.sid /\ ~did.generated
     /\ did.instant /\ gap > TIMEOUT => did.generated /\ page'.sidKey = page'.sid

\* C40: in a run of the script, while the user is not opted out, the
\* session id is kept at an
\* instant of activity or tracking that comes at most the timeout after the
\* one before, and is replaced by a newly generated id, written to
\* sessionStorage, at one that comes later than that, before the step sends
\* its payload; every payload sent carries the session id the script holds,
\* which is not null
C40_SessionStable ==
  [][~page.optOut /\ ~page'.optOut => SessionStep]_vars

\* a trackEvent call after a gap longer than the timeout sent a payload with
\* a newly generated session id
C40_Witness ==
  /\ ~page.optOut
  /\ page.last.op = "trackEvent"
  /\ page.last.generated
  /\ page.last.sent # NoPayload
  /\ page.last.sent.sessionId = page.sid
  /\ page.last.sent.ts > TIMEOUT

====
